---- MODULE Spec2Model ----
(***************************************************************************)
(* A model of the aegis backend: the fetch-aggregate-score-persist         *)
(* pipeline (pipeline.Run), the risk calculator (risk.Calculate), the      *)
(* history manager (risk.UpdateHistory), the in-memory cache, the          *)
(* snapshot store, the scheduler and the process entry point.              *)
(*                                                                         *)
(* Numbers.  The weighted total of Calculate is computed in float64        *)
(* arithmetic, bit for bit (round to nearest, ties to even, after every    *)
(* operation, products and sums unfused), wherever the total of exact      *)
(* arithmetic lies halfway between two integers; elsewhere the two round   *)
(* alike and the exact total is used.  The other float64 expressions take  *)
(* integers and are never within rounding error of a half, so they are     *)
(* computed in exact rational arithmetic; math.Round is                    *)
(* round-half-away-from-zero.                                              *)
(* Time.  Wall-clock time and every millisecond timestamp are counted in   *)
(* units of six hours of local time since a local midnight, so the hour    *)
(* of day is one of 0, 6, 12, 18 and the 00:00/12:00 boundaries are the    *)
(* even instants.                                                          *)
(***************************************************************************)
EXTENDS Integers, Sequences, FiniteSets, TLC

\* ------------------------------------------------------------------ bounds
MaxNow == 5            \* wall-clock instants 0..MaxNow
MaxRuns == 2           \* pipeline runs started by one process
MaxLiveRuns == 3       \* the same where the scheduler's progress is checked
MaxRequests == 2       \* data requests handled by one goroutine of the server
MaxSeedLen == 21       \* longest per-signal history found in storage
MaxPulseNow == 11      \* last instant of the tracker's clock, in minutes
MaxPulseCalls == 3     \* calls made on the tracker
MaxSeedPoints == 3     \* longest total-risk history found in storage
MaxHistRuns == 2       \* UpdateHistory calls in a row
ByteLen == 2           \* bytes in a buffer handed to Cache.Set
MaxCalls == 1          \* calls of Set or Get per goroutine
MaxCalcCalls == 3      \* invocations of Calculate in a row
MaxElapsed == 2        \* the run's stopwatches saturate here ("this long or longer")
Scribble == 9          \* the byte a caller later writes into a buffer of its own

\* -------------------------------------------------------- program constants
HistoryCap == 20       \* per-signal history window
RateLimitGap == 2      \* seconds slept between the OpenSky fetchers

\* ----------------------------------------------------------------- helpers
None == [t |-> "none"]

Max(a, b) == IF a >= b THEN a ELSE b
Min(a, b) == IF a <= b THEN a ELSE b

\* math.Round(n/d) for d > 0: half away from zero.
RoundDiv(n, d) ==
    IF n >= 0 THEN (2 * n + d) \div (2 * d)
    ELSE -((2 * (-n) + d) \div (2 * d))

\* int(x) of a non-negative quotient: truncation.
TruncDiv(n, d) == IF n >= 0 THEN n \div d ELSE -((-n) \div d)

Last(s) == s[Len(s)]
Front(s) == SubSeq(s, 1, Len(s) - 1)

HourOf(now) == (now % 4) * 6
DayOf(now) == now \div 4
\* time.Weekday of the local date (Sunday = 0); instant 0 is a Thursday.
WeekdayOf(now) == (4 + DayOf(now)) % 7

\* ------------------------------------------------ Go values held in `any`
\* What a map[string]any or an `any` can hold in this program.
GoInt(n) == [t |-> "int", n |-> n]
GoFloat(n) == [t |-> "float64", f |-> n]
GoStr(s) == [t |-> "string", s |-> s]
GoBool(b) == [t |-> "bool", b |-> b]
GoNil == [t |-> "nil"]
GoMap(m) == [t |-> "map", m |-> m]
GoSlice(a) == [t |-> "slice", a |-> a]

\* JSON text, as the tree it denotes.
JNum(n) == [t |-> "number", n |-> n]
JStr(s) == [t |-> "jstring", s |-> s]
JBool(b) == [t |-> "jbool", b |-> b]
JNull == [t |-> "null"]
JObj(m) == [t |-> "object", m |-> m]
JArr(a) == [t |-> "array", a |-> a]

EmptyMap == [k \in {} |-> GoNil]

Has(m, key) == key \in DOMAIN m

\* A detail string, kept as the format and its arguments.
Detail(fmt, a, b, s) == [fmt |-> fmt, a |-> a, b |-> b, s |-> s]

\* ------------------------------------------------------- encoding/json
\* json.Marshal of a value held in `any`: Go ints and float64s both become
\* JSON numbers, a nil map or slice becomes null.
RECURSIVE MarshalAny(_)
MarshalAny(v) ==
    CASE v.t = "int" -> JNum(v.n)
      [] v.t = "float64" -> JNum(v.f)
      [] v.t = "string" -> JStr(v.s)
      [] v.t = "bool" -> JBool(v.b)
      [] v.t = "nil" -> JNull
      [] v.t = "map" -> JObj([k \in DOMAIN v.m |-> MarshalAny(v.m[k])])
      [] v.t = "slice" -> JArr([i \in DOMAIN v.a |-> MarshalAny(v.a[i])])

\* json.Unmarshal into an `any`: every JSON number becomes a float64,
\* objects become map[string]any, arrays []any.
RECURSIVE UnmarshalAny(_)
UnmarshalAny(j) ==
    CASE j.t = "number" -> GoFloat(j.n)
      [] j.t = "jstring" -> GoStr(j.s)
      [] j.t = "jbool" -> GoBool(j.b)
      [] j.t = "null" -> GoNil
      [] j.t = "object" -> GoMap([k \in DOMAIN j.m |-> UnmarshalAny(j.m[k])])
      [] j.t = "array" -> GoSlice([i \in DOMAIN j.a |-> UnmarshalAny(j.a[i])])

\* structToMap: marshal a typed struct, unmarshal it into a map[string]any.
\* The argument is the struct's fields as Go values under their json names.
structToMap(fields) == UnmarshalAny(MarshalAny(GoMap(fields))).m

\* -------------------------------------------------- typed fetch results
ZeroNews == [TotalCount |-> 0, AlertCount |-> 0]
ZeroConnectivity == [Status |-> "", Risk |-> 0, Trend |-> 0]
ZeroAviation == [AircraftCount |-> 0]
ZeroTanker == [TankerCount |-> 0]
ZeroWeather == [Clouds |-> 0, Description |-> ""]
ZeroPolymarket == [Odds |-> 0]

\* The raw map each fetcher returns beside its typed result.
\* fetchNews builds the map by hand, so its counts are Go ints.
newsRawMap(d) ==
    [k \in {"total_count", "alert_count"} |->
        IF k = "total_count" THEN GoInt(d.TotalCount) ELSE GoInt(d.AlertCount)]

connRawMap(d) ==
    structToMap([k \in {"status", "risk", "trend"} |->
        CASE k = "status" -> GoStr(d.Status)
          [] k = "risk" -> GoFloat(d.Risk)
          [] k = "trend" -> GoFloat(d.Trend)])

aviationRawMap(d) ==
    structToMap([k \in {"aircraft_count"} |-> GoInt(d.AircraftCount)])

tankerRawMap(d) ==
    structToMap([k \in {"tanker_count"} |-> GoInt(d.TankerCount)])

weatherRawMap(d) ==
    structToMap([k \in {"clouds", "description"} |->
        IF k = "clouds" THEN GoInt(d.Clouds) ELSE GoStr(d.Description)])

polymarketRawMap(d) ==
    structToMap([k \in {"odds"} |-> GoInt(d.Odds)])

pentagonRawMap(d) ==
    structToMap([k \in {"risk_contribution", "status", "is_late_night", "is_weekend"} |->
        CASE k = "risk_contribution" -> GoInt(d.RiskContribution)
          [] k = "status" -> GoStr(d.Status)
          [] k = "is_late_night" -> GoBool(d.IsLateNight)
          [] k = "is_weekend" -> GoBool(d.IsWeekend)])

\* ---------------------------------------------- pipeline extraction helpers
Lookup(m, key) == IF Has(m, key) THEN m[key] ELSE GoNil

\* intFromAny without its float64 case.
intFromAny_IntOnly(v) == IF v.t = "int" THEN v.n ELSE 0

intFromAny(v) ==
    CASE v.t = "float64" -> TruncDiv(v.f, 1)
      [] v.t = "int" -> v.n
      [] OTHER -> 0

strFromAny(v) == IF v.t = "string" THEN v.s ELSE ""

floatFromAny(v) ==
    CASE v.t = "float64" -> v.f
      [] v.t = "int" -> v.n
      [] OTHER -> 0

extractPolymarket(m) == [Odds |-> intFromAny(Lookup(m, "odds"))]

extractNews(m) ==
    [TotalCount |-> intFromAny(Lookup(m, "total_count")),
     AlertCount |-> intFromAny(Lookup(m, "alert_count"))]

extractAviation(m) == [AircraftCount |-> intFromAny(Lookup(m, "aircraft_count"))]

extractWeather(m) ==
    [Clouds |-> intFromAny(Lookup(m, "clouds")),
     Description |-> strFromAny(Lookup(m, "description"))]

extractConnectivity(m) ==
    [Status |-> strFromAny(Lookup(m, "status")),
     Risk |-> floatFromAny(Lookup(m, "risk")),
     Trend |-> floatFromAny(Lookup(m, "trend"))]

extractTanker(m) == [TankerCount |-> intFromAny(Lookup(m, "tanker_count"))]


\* ------------------------------------------------------- risk.Calculate
Signals == {"news", "connectivity", "flight", "tanker", "weather", "polymarket", "pentagon"}

\* The news score without its floor of 3.
newsRisk_NoFloor(news) ==
    IF news.TotalCount > 0
    THEN RoundDiv(85 * news.AlertCount * news.AlertCount, news.TotalCount * news.TotalCount)
    ELSE 0

newsRisk(news) ==
    LET articles == news.TotalCount
        alertCount == news.AlertCount
    IN  IF articles > 0
        THEN Max(3, RoundDiv(85 * alertCount * alertCount, articles * articles))
        ELSE 3

connDisplayRisk(connectivity) == Min(95, RoundDiv(38 * connectivity.Risk, 10))

\* The aircraft count subtracted unscaled.
flightRisk_PerAircraft(aviation) == Max(3, 95 - aviation.AircraftCount)

flightRisk(aviation) == Max(3, 95 - RoundDiv(8 * aviation.AircraftCount, 10))

tankerRisk(tanker) == RoundDiv(100 * tanker.TankerCount, 10)

weatherRisk(weather) == Max(0, Min(100, 100 - Max(0, weather.Clouds - 6) * 10))

polyOdds(polymarket) ==
    LET a == IF polymarket.Odds < 0 THEN 0 ELSE polymarket.Odds
        b == IF a > 100 THEN 100 ELSE a
    IN  IF b > 95 THEN 0 ELSE b

polyDisplayRisk(polymarket) ==
    IF polyOdds(polymarket) = 0 THEN 10 ELSE polyOdds(polymarket)

pentagonDisplayRisk(pentagon) == RoundDiv(100 * pentagon.RiskContribution, 10)

\* ------------------------------------------------------ float64 arithmetic
\* A float64 is sign and magnitude; the magnitude is a natural number of
\* units of 2^-57 (of 2^-109 after the multiplication by 1.15), written
\* least significant limb first in base 2^15.
LimbBase == 32768
LimbBits == 15

BNorm(a) ==
    LET top == {i \in 1..Len(a) : a[i] # 0}
    IN  IF top = {} THEN <<>> ELSE SubSeq(a, 1, CHOOSE i \in top : \A j \in top : j <= i)

BLimb(a, i) == IF i <= Len(a) THEN a[i] ELSE 0

RECURSIVE BAddFrom(_, _, _, _)
BAddFrom(a, b, i, carry) ==
    IF i > Len(a) /\ i > Len(b)
    THEN (IF carry = 0 THEN <<>> ELSE <<carry>>)
    ELSE LET s == BLimb(a, i) + BLimb(b, i) + carry
         IN  <<s % LimbBase>> \o BAddFrom(a, b, i + 1, s \div LimbBase)

BAdd(a, b) == BAddFrom(a, b, 1, 0)

\* a - b for a >= b
RECURSIVE BSubFrom(_, _, _, _)
BSubFrom(a, b, i, borrow) ==
    IF i > Len(a) THEN <<>>
    ELSE LET d == BLimb(a, i) - BLimb(b, i) - borrow
         IN  IF d < 0 THEN <<d + LimbBase>> \o BSubFrom(a, b, i + 1, 1)
             ELSE <<d>> \o BSubFrom(a, b, i + 1, 0)

BSub(a, b) == BNorm(BSubFrom(a, b, 1, 0))

\* a < b, both without leading zero limbs
RECURSIVE BLessFrom(_, _, _)
BLessFrom(a, b, i) ==
    IF i = 0 THEN FALSE
    ELSE IF a[i] # b[i] THEN a[i] < b[i]
    ELSE BLessFrom(a, b, i - 1)

BLess(a, b) ==
    IF Len(a) # Len(b) THEN Len(a) < Len(b) ELSE BLessFrom(a, b, Len(a))

\* a * k for 0 <= k < 2^15
RECURSIVE BMulSmallFrom(_, _, _, _)
BMulSmallFrom(a, k, i, carry) ==
    IF i > Len(a)
    THEN (IF carry = 0 THEN <<>> ELSE <<carry>>)
    ELSE LET s == a[i] * k + carry
         IN  <<s % LimbBase>> \o BMulSmallFrom(a, k, i + 1, s \div LimbBase)

BMulSmall(a, k) == BNorm(BMulSmallFrom(a, k, 1, 0))

Zeros(n) == [i \in 1..n |-> 0]

RECURSIVE BMulFrom(_, _, _)
BMulFrom(a, b, i) ==
    IF i > Len(b) THEN <<>>
    ELSE BAdd(Zeros(i - 1) \o BMulSmall(a, b[i]), BMulFrom(a, b, i + 1))

BMul(a, b) == BNorm(BMulFrom(a, b, 1))

\* number of bits of a limb, of a magnitude
RECURSIVE LimbLen(_)
LimbLen(x) == IF x = 0 THEN 0 ELSE 1 + LimbLen(x \div 2)

BitLen(a) == IF a = <<>> THEN 0 ELSE (Len(a) - 1) * LimbBits + LimbLen(a[Len(a)])

\* a \div d and a % d for 0 < d <= 2^15, most significant limb first
RECURSIVE BDivSmallFrom(_, _, _, _)
BDivSmallFrom(a, d, i, rem) ==
    IF i = 0 THEN [q |-> <<>>, r |-> rem]
    ELSE LET cur == rem * LimbBase + a[i]
             rest == BDivSmallFrom(a, d, i - 1, cur % d)
         IN  [q |-> rest.q \o <<cur \div d>>, r |-> rest.r]

\* a \div 2^s, and whether bits were lost
ShrSticky(a, s) ==
    LET whole == Min(Len(a), s \div LimbBits)
        part == s % LimbBits
        low == SubSeq(a, 1, whole)
        high == SubSeq(a, whole + 1, Len(a))
        d == BDivSmallFrom(high, 2 ^ part, Len(high), 0)
    IN  [q |-> BNorm(d.q), sticky |-> d.r # 0 \/ \E i \in 1..whole : low[i] # 0]

\* a * 2^s
BShl(a, s) ==
    IF a = <<>> THEN <<>>
    ELSE Zeros(s \div LimbBits) \o BMulSmall(a, 2 ^ (s % LimbBits))

BIsOdd(a) == a # <<>> /\ a[1] % 2 = 1

BOne == <<1>>

\* The magnitude rounded to 53 significant bits, ties to even.
Round53(a) ==
    IF BitLen(a) <= 53 THEN a
    ELSE LET s == BitLen(a) - 53
             h == ShrSticky(a, s - 1)
             q == ShrSticky(h.q, 1).q
             up == BIsOdd(h.q) /\ (h.sticky \/ BIsOdd(q))
         IN  BShl(IF up THEN BAdd(q, BOne) ELSE q, s)

\* The constants 0.20, 0.15, 0.10, 0.05 as float64, in units of 2^-57:
\* 0x66666666666668, 0x4ccccccccccccc, 0x33333333333334, 0x1999999999999a;
\* 1.15 as float64 in units of 2^-52: 0x12666666666666; 100 in units of 2^-109.
W020 == <<26216, 19660, 6553, 819>>
W015 == <<19660, 6553, 13107, 614>>
W010 == <<13108, 26214, 19660, 409>>
W005 == <<6554, 13107, 26214, 204>>
M115 == <<26214, 19660, 6553, 147>>
Hundred109 == <<0, 0, 0, 0, 0, 0, 0, 1600>>

Abs(x) == IF x < 0 THEN -x ELSE x

\* float64(k) * w
FMulInt(k, w) == [neg |-> k < 0, mag |-> Round53(BMulSmall(w, Abs(k)))]

\* x + y
FAdd(x, y) ==
    IF x.neg = y.neg THEN [neg |-> x.neg, mag |-> Round53(BAdd(x.mag, y.mag))]
    ELSE IF BLess(x.mag, y.mag) THEN [neg |-> y.neg, mag |-> Round53(BSub(y.mag, x.mag))]
    ELSE IF BLess(y.mag, x.mag) THEN [neg |-> x.neg, mag |-> Round53(BSub(x.mag, y.mag))]
    ELSE [neg |-> FALSE, mag |-> <<>>]

\* Lines 112-121: the weighted total, in units of 2^-57.
WeightedTotal(n, c, f, t, p, pe, w) ==
    FAdd(FAdd(FAdd(FAdd(FAdd(FAdd(FMulInt(n, W020), FMulInt(c, W020)),
                                  FMulInt(f, W015)), FMulInt(t, W015)),
                   FMulInt(p, W015)), FMulInt(pe, W010)), FMulInt(w, W005))

\* Lines 147-150: math.Min(100, totalRisk*1.15) when three or more signals
\* are elevated; the result in units of 2^-109.
Escalated(total, elevatedCount) ==
    IF elevatedCount >= 3
    THEN LET prod == Round53(BMul(total.mag, M115))
         IN  [neg |-> total.neg,
              mag |-> IF ~total.neg /\ BLess(Hundred109, prod) THEN Hundred109 ELSE prod]
    ELSE [neg |-> total.neg, mag |-> BShl(total.mag, 52)]

RECURSIVE BToInt(_, _)
BToInt(a, i) == IF i > Len(a) THEN 0 ELSE a[i] + LimbBase * BToInt(a, i + 1)

\* Line 152: int(math.Min(100, math.Max(0, math.Round(totalRisk)))) for a
\* total in units of 2^-109; math.Round rounds halves away from zero.
totalRiskInt(total) ==
    LET h == ShrSticky(total.mag, 108).q
        halves == IF Len(h) > 1 THEN 2 * 1000 ELSE BToInt(h, 1)
        rounded == (halves + 1) \div 2
    IN  IF total.neg THEN 0 ELSE Min(100, rounded)

\* The weights of simulated activity and weather exchanged.
WeightedTotal100_WeatherForPentagon(n, c, f, t, p, pe, w) ==
    20 * n + 20 * c + 15 * f + 15 * t + 15 * p + 5 * pe + 10 * w

\* The weighted total in exact arithmetic, times 100 (weights 0.20 0.20 0.15
\* 0.15 0.15 0.10 0.05).
WeightedTotal100(n, c, f, t, p, pe, w) ==
    20 * n + 20 * c + 15 * f + 15 * t + 15 * p + 10 * pe + 5 * w

Count(b) == IF b THEN 1 ELSE 0

ElevatedCountOf(n, connRisk, f, t, p, pe, w) ==
    Count(n > 30) + Count(connRisk >= 10) + Count(f > 50) + Count(t > 30)
        + Count(p > 30) + Count(pe > 50) + Count(w > 70)

\* The multiplier applied from two elevated signals on.
Escalated10000_AtTwo(total100, elevatedCount) ==
    IF elevatedCount >= 2 THEN Min(1000000, total100 * 115) ELSE total100 * 100

\* The total after the escalation multiplier in exact arithmetic, times 10000.
Escalated10000(total100, elevatedCount) ==
    IF elevatedCount >= 3 THEN Min(1000000, total100 * 115) ELSE total100 * 100

\* The rounded total without the ceiling of 100.
RoundedTotal_NoCeiling(total10000) == Max(0, RoundDiv(total10000, 10000))

\* The total of exact arithmetic, rounded half away from zero and clamped.
RoundedTotal(total10000) == Min(100, Max(0, RoundDiv(total10000, 10000)))

\* Whether the total of exact arithmetic lies halfway between two integers.
\* The float64 total is within 2^-40 of the exact one, which away from such
\* a point is at least 1/10000 from the nearest half: there both round alike,
\* and the float64 operations need evaluating only on a tie.
OnRoundingTie(total100, elevatedCount) ==
    IF elevatedCount >= 3 THEN (total100 * 115) % 10000 = 5000
    ELSE total100 % 100 = 50

\* Lines 111-152 in float64.
totalRiskFloat(n, c, f, t, p, pe, w, elevatedCount) ==
    totalRiskInt(Escalated(WeightedTotal(n, c, f, t, p, pe, w), elevatedCount))

Calculate(news, connectivity, aviation, tanker, weather, polymarket, pentagon) ==
    LET n == newsRisk(news)
        c == connDisplayRisk(connectivity)
        f == flightRisk(aviation)
        t == tankerRisk(tanker)
        w == weatherRisk(weather)
        p == polyDisplayRisk(polymarket)
        pe == pentagonDisplayRisk(pentagon)
        connStatus == IF connectivity.Status = "" THEN "STABLE" ELSE connectivity.Status
        elevated == ElevatedCountOf(n, connectivity.Risk, f, t, p, pe, w)
        total100 == WeightedTotal100(n, c, f, t, p, pe, w)
    IN  [news |-> [Risk |-> n,
                   Detail |-> Detail("%d articles, %d critical", news.TotalCount, news.AlertCount, "")],
         connectivity |-> [Risk |-> c,
                   Detail |-> IF connStatus = "STALE"
                              THEN Detail("Data unavailable", 0, 0, "")
                              ELSE Detail("%s (%+.1f%%)", connectivity.Trend, 0, connStatus)],
         flight |-> [Risk |-> f,
                   Detail |-> Detail("%d aircraft over Iran", aviation.AircraftCount, 0, "")],
         tanker |-> [Risk |-> t,
                   Detail |-> Detail("%d detected in region", RoundDiv(tanker.TankerCount, 4), 0, "")],
         weather |-> [Risk |-> w,
                   Detail |-> Detail("%s", 0, 0,
                                 IF weather.Description = "" THEN "clear" ELSE weather.Description)],
         polymarket |-> [Risk |-> p,
                   Detail |-> IF polyOdds(polymarket) > 0
                              THEN Detail("%d%% odds", polyOdds(polymarket), 0, "")
                              ELSE Detail("Awaiting data...", 0, 0, "")],
         pentagon |-> [Risk |-> pe,
                   Detail |-> Detail("%s(late night)(weekend)",
                                 Count(pentagon.IsLateNight), Count(pentagon.IsWeekend),
                                 IF pentagon.Status = "" THEN "Normal" ELSE pentagon.Status)],
         TotalRisk |-> IF OnRoundingTie(total100, elevated)
                       THEN totalRiskFloat(n, c, f, t, p, pe, w, elevated)
                       ELSE RoundedTotal(Escalated10000(total100, elevated)),
         ElevatedCount |-> elevated]

\* ------------------------------------------------ fetcher.fetchPentagon
\* hour and weekday are those of time.Now(); hashLow is dayHash%10 < 2 for
\* the md5 of the local date.  Every pizza place gets the same base score,
\* so the average over the places is the adjusted score of one.
pentagonBaseScore(hour, pyWeekday, hashLow) ==
    IF hour >= 11 /\ hour <= 14 /\ pyWeekday < 5 THEN 50
    ELSE IF hour >= 17 /\ hour <= 20 THEN 55
    ELSE IF hour >= 22 \/ hour < 6 THEN (IF hashLow THEN 70 ELSE 20)
    ELSE IF pyWeekday >= 5 THEN 25
    ELSE 30

fetchPentagon(hour, weekday, hashLow) ==
    LET pyWeekday == (weekday + 6) % 7
        score == pentagonBaseScore(hour, pyWeekday, hashLow)
        isLateNight == hour >= 22 \/ hour < 6
        isWeekend == pyWeekday >= 5
        avg10 == IF isLateNight /\ score > 60 THEN 15 * score
                 ELSE IF isWeekend /\ score > 70 THEN 13 * score
                 ELSE 10 * score
        activityScore == RoundDiv(Min(1000, Max(0, avg10)), 10)
    IN  [RiskContribution |-> IF activityScore >= 80 THEN 10
                              ELSE IF activityScore >= 60 THEN 7
                              ELSE IF activityScore >= 40 THEN 3
                              ELSE 1,
         Status |-> IF activityScore >= 80 THEN "High Activity"
                    ELSE IF activityScore >= 60 THEN "Elevated"
                    ELSE IF activityScore >= 40 THEN "Normal"
                    ELSE "Low Activity",
         IsLateNight |-> isLateNight,
         IsWeekend |-> isWeekend]


\* --------------------------------------------------- risk.UpdateHistory
getFloat64(m, key) ==
    IF Has(m, key)
    THEN CASE m[key].t = "float64" -> m[key].f
           [] m[key].t = "int" -> m[key].n
           [] OTHER -> 0
    ELSE 0

getIntVal(m, key) ==
    IF Has(m, key)
    THEN CASE m[key].t = "float64" -> TruncDiv(m[key].f, 1)
           [] m[key].t = "int" -> m[key].n
           [] OTHER -> 0
    ELSE 0

getBoolVal(m, key) ==
    IF Has(m, key) /\ m[key].t = "bool" THEN m[key].b ELSE FALSE

ensureMap(v) == IF v.t = "nil" THEN EmptyMap ELSE v.m

TotalRiskPoint(ts, risk, pinned) == [Timestamp |-> ts, Risk |-> risk, Pinned |-> pinned]

\* The points of a []any: the items that are objects, in order.
PointsOf(items) ==
    LET maps == SelectSeq(items, LAMBDA x : x.t = "map")
    IN  [i \in 1..Len(maps) |->
            TotalRiskPoint(TruncDiv(getFloat64(maps[i].m, "timestamp"), 1),
                           getIntVal(maps[i].m, "risk"),
                           getBoolVal(maps[i].m, "pinned"))]

\* m[key].(map[string]any) and m[key].([]any), with the ok flag folded in.
IsMapAt(m, key) == Has(m, key) /\ m[key].t = "map"
IsSliceAt(m, key) == Has(m, key) /\ m[key].t = "slice"

\* total_risk.history of the previous snapshot, or the old top-level history
\* when the new one gave no point.
ExistingTotalRiskHistory(current) ==
    IF current.t = "nil" THEN <<>>
    ELSE LET new == IF IsMapAt(current.m, "total_risk")
                       /\ IsSliceAt(current.m["total_risk"].m, "history")
                    THEN PointsOf(current.m["total_risk"].m["history"].a)
                    ELSE <<>>
         IN  IF new # <<>> THEN new
             ELSE IF IsSliceAt(current.m, "history")
                  THEN PointsOf(current.m["history"].a)
                  ELSE <<>>

ExistingSignalHistory(current, sig) ==
    IF current.t = "map" /\ IsMapAt(current.m, sig) /\ IsSliceAt(current.m[sig].m, "history")
    THEN LET nums == SelectSeq(current.m[sig].m["history"].a, LAMBDA v : v.t = "float64")
         IN  [i \in 1..Len(nums) |-> TruncDiv(nums[i].f, 1)]
    ELSE <<>>

\* append, then keep the last HistoryCap entries.
\* A cap that keeps the oldest entries.
AppendCapped_KeepsOldest(hist, risk) ==
    LET h == Append(hist, risk)
    IN  IF Len(h) > HistoryCap THEN SubSeq(h, 1, HistoryCap) ELSE h

AppendCapped(hist, risk) ==
    LET h == Append(hist, risk)
    IN  IF Len(h) > HistoryCap THEN SubSeq(h, Len(h) - HistoryCap + 1, Len(h)) ELSE h

\* A boundary that moves to 12:00 only after the hour of 12.
CurrentBoundary_AfterNoon(now) ==
    IF HourOf(now) > 12 THEN DayOf(now) * 4 + 2 ELSE DayOf(now) * 4

\* today's 12:00 when the hour is at least 12, else today's 00:00.
CurrentBoundary(now) ==
    IF HourOf(now) >= 12 THEN DayOf(now) * 4 + 2 ELSE DayOf(now) * 4

\* The kept points copied without their pinned flag.
PinAndAppend_Unpins(hist, now, totalRisk) ==
    LET kept == [i \in 1..(Len(hist) - 1) |-> [hist[i + 1] EXCEPT !.Pinned = FALSE]]
        pinned == IF Len(kept) > 0
                  THEN [kept EXCEPT ![Len(kept)] =
                            TotalRiskPoint(CurrentBoundary(now), Last(hist).Risk, TRUE)]
                  ELSE kept
    IN  Append(pinned, TotalRiskPoint(now, totalRisk, FALSE))

\* The anchor pinned and the live point appended with no point dropped.
PinAndAppend_KeepsOldest(hist, now, totalRisk) ==
    Append([hist EXCEPT ![Len(hist)] =
                TotalRiskPoint(CurrentBoundary(now), Last(hist).Risk, TRUE)],
           TotalRiskPoint(now, totalRisk, FALSE))

\* Lines 107-120: drop the oldest point, turn the (new) last slot into the
\* pinned anchor when a slot is left, append the live point.
PinAndAppend(hist, now, totalRisk) ==
    LET lastPoint == Last(hist)
        dropped == Tail(hist)
        pinned == IF Len(dropped) > 0
                  THEN [dropped EXCEPT ![Len(dropped)] =
                            TotalRiskPoint(CurrentBoundary(now), lastPoint.Risk, TRUE)]
                  ELSE dropped
    IN  Append(pinned, TotalRiskPoint(now, totalRisk, FALSE))

\* The live point appended instead of overwritten.
OverwriteLast_Appends(hist, now, totalRisk) ==
    Append(hist, [Timestamp |-> now, Risk |-> totalRisk, Pinned |-> FALSE])

\* Lines 122-126: overwrite the last point in place.
OverwriteLast(hist, now, totalRisk) ==
    [hist EXCEPT ![Len(hist)] = TotalRiskPoint(now, totalRisk, FALSE)]

\* An empty history left empty.
UpdateTotalRiskHistory_NoFirstPoint(hist, now, totalRisk) ==
    IF Len(hist) > 0
    THEN IF Last(hist).Timestamp < CurrentBoundary(now)
         THEN PinAndAppend(hist, now, totalRisk)
         ELSE OverwriteLast(hist, now, totalRisk)
    ELSE <<>>

UpdateTotalRiskHistory(hist, now, totalRisk) ==
    IF Len(hist) > 0
    THEN IF Last(hist).Timestamp < CurrentBoundary(now)
         THEN PinAndAppend(hist, now, totalRisk)
         ELSE OverwriteLast(hist, now, totalRisk)
    ELSE <<TotalRiskPoint(now, totalRisk, FALSE)>>

\* current: the previous snapshot, GoMap(..) or GoNil;
\* raw: the seven raw maps, each GoMap(..) or GoNil.
UpdateHistory(current, scores, raw, now) ==
    [sig \in Signals |->
        [Risk |-> scores[sig].Risk,
         Detail |-> scores[sig].Detail,
         History |-> AppendCapped(ExistingSignalHistory(current, sig), scores[sig].Risk),
         RawData |-> ensureMap(raw[sig])]]
    @@ [k \in {"total_risk", "last_updated"} |->
        IF k = "total_risk"
        THEN [Risk |-> scores.TotalRisk,
              History |-> UpdateTotalRiskHistory(ExistingTotalRiskHistory(current),
                                                 now, scores.TotalRisk),
              ElevatedCount |-> scores.ElevatedCount]
        ELSE [Time |-> now]]

\* json.Marshal(model.Snapshot): the struct's json tags; pinned is omitempty.
MarshalPoint(p) ==
    JObj(IF p.Pinned
         THEN [k \in {"timestamp", "risk", "pinned"} |->
                 CASE k = "timestamp" -> JNum(p.Timestamp)
                   [] k = "risk" -> JNum(p.Risk)
                   [] k = "pinned" -> JBool(TRUE)]
         ELSE [k \in {"timestamp", "risk"} |->
                 IF k = "timestamp" THEN JNum(p.Timestamp) ELSE JNum(p.Risk)])

MarshalSignal(sg) ==
    JObj([k \in {"risk", "detail", "history", "raw_data"} |->
        CASE k = "risk" -> JNum(sg.Risk)
          [] k = "detail" -> JStr(sg.Detail)
          [] k = "history" -> JArr([i \in DOMAIN sg.History |-> JNum(sg.History[i])])
          [] k = "raw_data" -> MarshalAny(GoMap(sg.RawData))])

MarshalSnapshot(snap) ==
    JObj([k \in Signals \cup {"total_risk", "last_updated"} |->
        CASE k \in Signals -> MarshalSignal(snap[k])
          [] k = "total_risk" ->
                JObj([f \in {"risk", "history", "elevated_count"} |->
                    CASE f = "risk" -> JNum(snap[k].Risk)
                      [] f = "history" ->
                            JArr([i \in DOMAIN snap[k].History |-> MarshalPoint(snap[k].History[i])])
                      [] f = "elevated_count" -> JNum(snap[k].ElevatedCount)])
          [] k = "last_updated" -> JStr(snap[k])])


\* ----------------------------------------------------- upstream values
\* What the upstream sources can answer: a quiet and a tense reading of each.
Quiet ==
    [news |-> [TotalCount |-> 10, AlertCount |-> 2],
     connectivity |-> [Status |-> "STABLE", Risk |-> 0, Trend |-> 12],
     flight |-> [AircraftCount |-> 50],
     tanker |-> [TankerCount |-> 1],
     weather |-> [Clouds |-> 40, Description |-> "scattered clouds"],
     polymarket |-> [Odds |-> 12]]

Tense ==
    [news |-> [TotalCount |-> 10, AlertCount |-> 8],
     connectivity |-> [Status |-> "CRITICAL", Risk |-> 20, Trend |-> -550],
     flight |-> [AircraftCount |-> 5],
     tanker |-> [TankerCount |-> 6],
     weather |-> [Clouds |-> 0, Description |-> "clear sky"],
     polymarket |-> [Odds |-> 60]]

ApiSignals == Signals \ {"pentagon"}

\* The raw map fetcher `sig` returns with typed result d.
RawMapOf(sig, d) ==
    CASE sig = "news" -> newsRawMap(d)
      [] sig = "connectivity" -> connRawMap(d)
      [] sig = "flight" -> aviationRawMap(d)
      [] sig = "tanker" -> tankerRawMap(d)
      [] sig = "weather" -> weatherRawMap(d)
      [] sig = "polymarket" -> polymarketRawMap(d)
      [] sig = "pentagon" -> pentagonRawMap(d)

\* Calculate on a record of the seven typed results.
CalculateAll(r) ==
    Calculate(r.news, r.connectivity, r.flight, r.tanker, r.weather, r.polymarket, r.pentagon)

WithPentagon(r, pentagon) == r @@ [k \in {"pentagon"} |-> pentagon]

\* --------------------------------------------------- snapshots in storage
\* A per-signal history of n entries 1..n, oldest first.
SeedHistory(n) == [i \in 1..n |-> i]

\* A total-risk history of n points: pinned anchors at the boundaries
\* 0, 2, .. and a live last point at instant `last`.  (A history of two
\* or more points is one an earlier writer of the table left behind.)
SeedPoints(n, last, risk) ==
    [i \in 1..n |->
        IF i < n THEN TotalRiskPoint(2 * (i - 1), 10 * i, TRUE)
        ELSE TotalRiskPoint(last, risk, FALSE)]

\* A snapshot as an earlier run wrote it: the scores of `r`, the given
\* histories with the run's own entries last.
SeedSnapshot(r, hist, npoints, at) ==
    LET scores == CalculateAll(r)
        points == SeedPoints(npoints, at, scores.TotalRisk)
    IN  [sig \in Signals |->
            [Risk |-> scores[sig].Risk,
             Detail |-> scores[sig].Detail,
             History |-> hist \o <<scores[sig].Risk>>,
             RawData |-> RawMapOf(sig, r[sig])]]
        @@ [k \in {"total_risk", "last_updated"} |->
            IF k = "total_risk"
            THEN [Risk |-> scores.TotalRisk,
                  History |-> points,
                  ElevatedCount |-> scores.ElevatedCount]
            ELSE [Time |-> at]]

\* A row json.Unmarshal cannot put into a map: through the Store
\* interface any bytes, in the JSONB column a value that is not an object.
NotJSON == [t |-> "invalid"]

\* A parser that hands back an empty, non-nil map when it fails.
ParseSnapshot_EmptyOnError(bytes) ==
    IF bytes.t = "object" THEN UnmarshalAny(bytes) ELSE GoMap(EmptyMap)

\* json.Unmarshal(prevBytes, &currentData), currentData a nil
\* map[string]any: an object fills the map; anything else leaves it nil
\* (invalid text and non-objects with an error that Run only logs).
ParseSnapshot(bytes) ==
    IF bytes.t = "object" THEN UnmarshalAny(bytes) ELSE GoNil


\* The pentagon reading at instant t.
PentagonAt(t, hashLow) == fetchPentagon(HourOf(t), WeekdayOf(t), hashLow)

\* <<entries before the writer's own, total-risk points, instant written>>
SeedLens == {0, HistoryCap - 2, HistoryCap - 1, MaxSeedLen - 1}
SeedShapes ==
    {<<n, 1, 0>> : n \in SeedLens}
    \cup UNION {{<<0, np, Max(0, 2 * (np - 2))>>, <<0, np, Max(0, 2 * (np - 2)) + 1>>} :
                    np \in 0..MaxSeedPoints}

SeedBytes(shape) ==
    MarshalSnapshot(SeedSnapshot(WithPentagon(Quiet, PentagonAt(shape[3], FALSE)),
                                 SeedHistory(shape[1]), shape[2], shape[3]))

\* A row whose total-risk history a writer grew by one unpinned point on
\* every run: the stored row `bytes` of one point with an unpinned point of
\* the same instant in front of it. history.go lines 26-39 read whatever
\* points the row holds.
AppendedShape == <<0, 1, 1>>
AppendedSeedBytes(bytes, at) ==
    [bytes EXCEPT !.m["total_risk"].m["history"].a =
                      <<MarshalPoint(TotalRiskPoint(at, 10, FALSE))>> \o @]

\* ------------------------------------------------- pulse.Tracker
\* NewTracker: window is 10 * time.Minute; instants are in minutes.
window == 10

\* Tracker.maxVisits, the most visits kept. NewTracker sets 10000; the
\* tracker checked is built with a cap that three calls reach.
maxVisits == 2

Visit(timestamp, countryCode) == [Timestamp |-> timestamp, CountryCode |-> countryCode]

\* The instants time.Now() is read at: the start, and one window later,
\* each with the minute next to it.
PulseInstants == {0, 1, MaxPulseNow - 1, MaxPulseNow}

\* Timestamp.After(cutoff), cutoff := now.Add(-t.window).
Fresh(visits, now) == {i \in 1..Len(visits) : visits[i].Timestamp > now - window}

\* A trim that drops every visit at or before the cutoff, wherever it is.
trimOldVisits_Filter(visits, now) ==
    SelectSeq(visits, LAMBDA v : v.Timestamp > now - window)

\* Lines 135-150: idx is the index of the first visit after the cutoff,
\* len(visits) when the loop reaches the last visit without finding one,
\* 0 for no visits; the slice is cut at idx.
trimOldVisits(visits, now) ==
    LET fresh == Fresh(visits, now)
        idx == IF fresh # {}
               THEN (CHOOSE i \in fresh : \A j \in fresh : i <= j) - 1
               ELSE Len(visits)
    IN  SubSeq(visits, idx + 1, Len(visits))

\* Lines 110-112: the newest maxVisits visits.
EnforceMax(visits) ==
    IF Len(visits) > maxVisits
    THEN SubSeq(visits, Len(visits) - maxVisits + 1, Len(visits))
    ELSE visits

\* Lines 154-168, 226-234, 280-287: the counts of Stats; countryCounts
\* counts the visits after the cutoff by country.
calculateStats(visits, now) ==
    LET fresh == Fresh(visits, now)
    IN  [WatchingNow |-> Cardinality(fresh),
         TotalCountries |-> Cardinality({visits[i].CountryCode : i \in fresh}),
         IsraelCount |-> Cardinality({i \in fresh : visits[i].CountryCode = "IL"})]

PulseCallers == {"p1", "p2"}

CallIdle ==
    [pc |-> "idle", op |-> "none", arg |-> "", countryCode |-> "", now |-> 0,
     seen |-> <<>>, held |-> <<>>, after |-> <<>>, stats |-> None, returned |-> FALSE]

\* NewTracker (lines 73-81), the clock, and no call under way.  overlapped:
\* some call began while another had not returned.
PulseIdle ==
    [visits |-> <<>>, mu |-> "none", clock |-> 0, calls |-> 0, overlapped |-> FALSE,
     call |-> [p \in PulseCallers |-> CallIdle]]

VARIABLES
    store,        \* the snapshots table: every response saved, oldest first
    fetchLog,     \* per stored snapshot, the fetched values behind its raw_data
    cache,        \* cache.Cache: data (None is nil) and updatedAt
    clock,        \* the last reading of time.Now()
    run,          \* per caller of Pipeline.Run, the locals of its current or last invocation
    active,       \* number of Pipeline.Run invocations executing
    runsStarted,  \* number of Pipeline.Run invocations begun
    mainPc,       \* where func main is
    schedPc,      \* where Scheduler.Start is
    tickPending,  \* a tick waits in ticker.C (capacity one)
    stopClosed,   \* Scheduler.stop is closed
    hs,           \* history manager alone: the stored snapshot and the last call
    cs,           \* cache.Cache alone, byte by byte: memory, lock, callers
    ks,           \* risk.Calculate alone: the next input, the last call, all calls
    rq,           \* per goroutine of the HTTP server, the data request it handles
    ps            \* pulse.Tracker: its visits and lock, the clock, the calls on it

progVars == <<store, fetchLog, cache, clock, run, active, runsStarted,
              mainPc, schedPc, tickPending, stopClosed>>
vars == <<store, fetchLog, cache, clock, run, active, runsStarted,
          mainPc, schedPc, tickPending, stopClosed, hs, cs, ks, rq, ps>>

Callers == {"main", "sched"}
GroupFetchers == {"polymarket", "news", "flight", "weather", "connectivity"}

ZeroOf(sig) ==
    CASE sig = "news" -> ZeroNews
      [] sig = "connectivity" -> ZeroConnectivity
      [] sig = "flight" -> ZeroAviation
      [] sig = "tanker" -> ZeroTanker
      [] sig = "weather" -> ZeroWeather
      [] sig = "polymarket" -> ZeroPolymarket

\* The declared, not yet assigned, result variables of one fetcher.
EmptySlot(sig) == [state |-> "idle", data |-> ZeroOf(sig), raw |-> GoNil, err |-> FALSE]

IdleRun ==
    [pc |-> "idle", currentData |-> GoNil, loaded |-> 0,
     upstream |-> None, slot |-> [sig \in ApiSignals |-> EmptySlot(sig)],
     sinceAviation |-> -1, slept |-> -1, gapAtTanker |-> -1,
     scores |-> None, snapshot |-> None, data |-> None,
     result |-> "none", failedAt |-> "none", marshalErr |-> FALSE,
     ctxDone |-> FALSE, inflightAtCancel |-> {},
     cacheAtStart |-> None, storeAtStart |-> 0]

\* ----------------------------------------- cache.Cache, byte by byte
\* Byte slices are references into a heap of arrays.
NilRef == <<"nil", "", 0>>
InRef(w) == <<"in", w, 0>>
CacheRef(w, k) == <<"cache", w, k>>
OutRef(r, k) == <<"out", r, k>>

Setters == {"w1", "w2"}
Getters == {"r1", "r2"}

\* The bytes a caller of Set holds.
Payload(w) == [i \in 1..ByteLen |-> IF w = "w1" THEN 1 ELSE 2]

\* make([]byte, n)
Zeroed(n) == [i \in 1..n |-> 0]

Without(heap, ref) == [x \in DOMAIN heap \ {ref} |-> heap[x]]
With(heap, ref, bytes) ==
    [x \in DOMAIN heap \cup {ref} |-> IF x = ref THEN bytes ELSE heap[x]]

\* sync.RWMutex: Lock waits for the writer and every reader to leave,
\* RLock for the writer.
CanLock(writer, readers) == writer = "none" /\ readers = {}
CanRLock_Unguarded(writer) == TRUE
CanRLock(writer) == writer = "none"

\* cache.New() and the goroutines that will call it.
CacheIdle ==
    [heap |-> [x \in {InRef(w) : w \in Setters} |-> Payload(x[2])],
     data |-> NilRef, updatedAt |-> 0, stamps |-> 0,
     writer |-> "none", readers |-> {},
     set |-> [w \in Setters |-> [pc |-> "idle", i |-> 0, calls |-> 0, passed |-> <<>>]],
     get |-> [r \in Getters |->
                [pc |-> "idle", i |-> 0, calls |-> 0, src |-> NilRef, out |-> NilRef,
                 returned |-> FALSE, gotNil |-> FALSE, got |-> <<>>, sawSet |-> FALSE]],
     last |-> <<>>, completed |-> {}]

CalcIdle == [next |-> <<>>, last |-> None, log |-> <<>>, calls |-> 0]

HistIdle ==
    [current |-> GoNil, before |-> GoNil, ran |-> FALSE, snap |-> None,
     scores |-> None, now |-> 0, runs |-> 0, fresh |-> TRUE, len0 |-> 0]

\* A goroutine of the HTTP server between two requests.  Besides the
\* locals of handleData and the response written, the record keeps what the
\* handler saw: cacheSeen is what cache.Get returned, stored what
\* LatestSnapshot returned, dbErr that it returned an error.
Handlers == {"h1"}
ReqIdle ==
    [pc |-> "idle", method |-> "", data |-> None,
     cacheSeen |-> None, queried |-> FALSE, dbErr |-> FALSE, stored |-> None,
     didSet |-> FALSE, status |-> 0, body |-> None, served |-> 0]

ProgIdle ==
    /\ store = <<>>
    /\ fetchLog = <<>>
    /\ cache = [data |-> None, updatedAt |-> -1]
    /\ clock = 0
    /\ run = [c \in Callers |-> IdleRun]
    /\ active = 0
    /\ runsStarted = 0
    /\ mainPc = "boot"
    /\ schedPc = "off"
    /\ tickPending = FALSE
    /\ stopClosed = FALSE

\* ========================================================= cache.Cache
\* Set: copy the bytes in and stamp the time, under the write lock.
CacheSet(data, now) == [data |-> data, updatedAt |-> now]

\* Get: a copy of the bytes, or nil, under the read lock.
CacheGet(c) == c.data

\* ================================================ store.Postgres
\* A store that keeps one row and overwrites it.
StoreInsert_Replaces(rows, response) == <<response>>

\* SaveSnapshot: INSERT one row.  The column is JSONB; a row is held as the
\* JSON value its text denotes, which is how bytes are kept throughout.
StoreInsert(rows, response) == Append(rows, response)

\* LatestSnapshot: the newest row's response, nil when there is none.
StoreLatest(rows) == IF rows = <<>> THEN None ELSE Last(rows)

\* ======================================================== Pipeline.Run
\* What the upstream sources do during one run: per fetcher an answer, or
\* an error together with the typed result the fetcher returns beside it.
\* fetchConnectivity returns ConnectivityData{Status: "STALE"} beside two of
\* its errors; every other error comes with the zero value.
Up(v) == [ok |-> TRUE, v |-> v]
Down(sig, stale) ==
    [ok |-> FALSE,
     v |-> IF sig = "connectivity" /\ stale
           THEN [ZeroConnectivity EXCEPT !.Status = "STALE"]
           ELSE ZeroOf(sig)]

Upstream(profile, failing, stale) ==
    [sig \in ApiSignals |->
        IF sig \in failing THEN Down(sig, stale) ELSE Up(profile[sig])]

\* What fetcher `sig` returns: (typed result, raw map, error).
FetchResult(sig, u) ==
    IF u.ok
    THEN [state |-> "done", data |-> u.v, raw |-> GoMap(RawMapOf(sig, u.v)), err |-> FALSE]
    ELSE [state |-> "done", data |-> u.v, raw |-> GoNil, err |-> TRUE]

extract(sig, m) ==
    CASE sig = "news" -> extractNews(m)
      [] sig = "connectivity" -> extractConnectivity(m)
      [] sig = "flight" -> extractAviation(m)
      [] sig = "tanker" -> extractTanker(m)
      [] sig = "weather" -> extractWeather(m)
      [] sig = "polymarket" -> extractPolymarket(m)

\* Step 5 for one signal: the previous snapshot's raw_data replaces the
\* result of a failed fetch when the previous snapshot has one.
HasPreviousRaw(currentData, sig) ==
    /\ currentData.t = "map"
    /\ IsMapAt(currentData.m, sig)
    /\ IsMapAt(currentData.m[sig].m, "raw_data")

\* A fallback that scores the previous raw_data and does not write it.
Fallback_DataOnly(sig, slot, currentData) ==
    IF slot.err /\ HasPreviousRaw(currentData, sig)
    THEN [data |-> extract(sig, currentData.m[sig].m["raw_data"].m), raw |-> slot.raw]
    ELSE [data |-> slot.data, raw |-> slot.raw]

Fallback(sig, slot, currentData) ==
    IF slot.err /\ HasPreviousRaw(currentData, sig)
    THEN LET rd == currentData.m[sig].m["raw_data"].m
         IN  [data |-> extract(sig, rd), raw |-> GoMap(rd)]
    ELSE [data |-> slot.data, raw |-> slot.raw]

\* A run that returns the first fetch error instead.
AbortsOnFetchError_Propagates(err) == err

\* Lines 89-106: a fetch error is logged, the run goes on.
AbortsOnFetchError(err) == FALSE

\* A join that returns with the first goroutine.
GroupDone_FirstReturn(slots) == \E sig \in GroupFetchers : slots[sig].state = "done"

\* g.Wait(): every goroutine of the group has returned.
GroupDone(slots) == \A sig \in GroupFetchers : slots[sig].state = "done"

\* A run without the sleep.
SleepOver_NoWait(slept) == TRUE

\* time.Sleep(2 * time.Second) is over.
SleepOver(slept) == slept >= RateLimitGap

\* Lines 32-87: load and parse the previous snapshot, declare the result
\* variables, start the five goroutines of the group.  dbOk: the query
\* succeeded.  ups: what the upstream sources will do during this run.
RunBegin(c, dbOk, ups) ==
    LET prevBytes == IF dbOk THEN StoreLatest(store) ELSE None
    IN  /\ run' = [run EXCEPT ![c] =
                [IdleRun EXCEPT
                    !.pc = "fetching",
                    !.currentData = IF prevBytes.t = "none" THEN GoNil ELSE ParseSnapshot(prevBytes),
                    !.loaded = IF prevBytes.t = "none" THEN 0 ELSE Len(store),
                    !.upstream = ups,
                    !.slot = [sig \in ApiSignals |->
                                 IF sig \in GroupFetchers
                                 THEN [EmptySlot(sig) EXCEPT !.state = "inflight"]
                                 ELSE EmptySlot(sig)],
                    !.cacheAtStart = cache,
                    !.storeAtStart = Len(store)]]
        /\ active' = active + 1
        /\ runsStarted' = runsStarted + 1

\* One goroutine of the group assigns its three result variables and ends.
FetchReturn(c, sig) ==
    /\ sig \in GroupFetchers
    /\ run[c].pc = "fetching"
    /\ run[c].slot[sig].state = "inflight"
    /\ run' = [run EXCEPT ![c].slot[sig] = FetchResult(sig, run[c].upstream[sig]),
                          ![c].sinceAviation = IF sig = "flight" THEN 0 ELSE @]
    /\ UNCHANGED <<store, fetchLog, cache, clock, active, runsStarted,
                   mainPc, schedPc, tickPending, stopClosed, hs, cs, ks, rq, ps>>

\* g.Wait() returns; the run logs the errors and goes to sleep.
Join(c) ==
    /\ run[c].pc = "fetching"
    /\ GroupDone(run[c].slot)
    /\ IF \E sig \in GroupFetchers : AbortsOnFetchError(run[c].slot[sig].err)
       THEN /\ run' = [run EXCEPT ![c].pc = "idle", ![c].result = "error",
                                  ![c].failedAt = "fetch"]
            /\ active' = active - 1
       ELSE /\ run' = [run EXCEPT ![c].pc = "sleeping", ![c].slept = 0]
            /\ UNCHANGED active
    /\ UNCHANGED <<store, fetchLog, cache, clock, runsStarted,
                   mainPc, schedPc, tickPending, stopClosed, hs, cs, ks, rq, ps>>

\* One second passes on the stopwatches of the runs in progress.
Tick ==
    /\ \E c \in Callers :
          \/ (run[c].pc \in {"fetching", "sleeping"} /\ run[c].sinceAviation >= 0
                 /\ run[c].sinceAviation < MaxElapsed)
          \/ (run[c].pc = "sleeping" /\ run[c].slept < MaxElapsed)
    /\ run' = [c \in Callers |->
                 IF run[c].pc \in {"fetching", "sleeping"}
                 THEN [run[c] EXCEPT
                          !.sinceAviation = IF @ >= 0 THEN Min(MaxElapsed, @ + 1) ELSE @,
                          !.slept = IF @ >= 0 THEN Min(MaxElapsed, @ + 1) ELSE @]
                 ELSE run[c]]
    /\ UNCHANGED <<store, fetchLog, cache, clock, active, runsStarted,
                   mainPc, schedPc, tickPending, stopClosed, hs, cs, ks, rq, ps>>

\* The sleep ends and FetchTanker is called.
TankerCall(c) ==
    /\ run[c].pc = "sleeping"
    /\ SleepOver(run[c].slept)
    /\ run' = [run EXCEPT ![c].pc = "tanker",
                          ![c].slot["tanker"].state = "inflight",
                          ![c].gapAtTanker = run[c].sinceAviation,
                          ![c].sinceAviation = -1,
                          ![c].slept = -1]
    /\ UNCHANGED <<store, fetchLog, cache, clock, active, runsStarted,
                   mainPc, schedPc, tickPending, stopClosed, hs, cs, ks, rq, ps>>

\* FetchTanker returns; its error is logged.
TankerReturn(c) ==
    /\ run[c].pc = "tanker"
    /\ LET res == FetchResult("tanker", run[c].upstream["tanker"])
       IN  IF AbortsOnFetchError(res.err)
           THEN /\ run' = [run EXCEPT ![c].slot["tanker"] = res, ![c].pc = "idle",
                                      ![c].result = "error", ![c].failedAt = "fetch"]
                /\ active' = active - 1
           ELSE /\ run' = [run EXCEPT ![c].slot["tanker"] = res, ![c].pc = "score"]
                /\ UNCHANGED active
    /\ UNCHANGED <<store, fetchLog, cache, clock, runsStarted,
                   mainPc, schedPc, tickPending, stopClosed, hs, cs, ks, rq, ps>>

\* Lines 64-106 as one step, for where the order of the fetchers' returns is
\* not looked at: the group, the sleep, the tanker fetch.
Gather(c) ==
    /\ run[c].pc = "fetching"
    /\ LET res == [sig \in ApiSignals |-> FetchResult(sig, run[c].upstream[sig])]
       IN  IF \E sig \in ApiSignals : AbortsOnFetchError(res[sig].err)
           THEN /\ run' = [run EXCEPT ![c].slot = res, ![c].pc = "idle",
                                      ![c].result = "error", ![c].failedAt = "fetch"]
                /\ active' = active - 1
           ELSE /\ run' = [run EXCEPT ![c].slot = res, ![c].pc = "score",
                                      ![c].gapAtTanker = RateLimitGap]
                /\ UNCHANGED active
    /\ UNCHANGED <<store, fetchLog, cache, clock, runsStarted,
                   mainPc, schedPc, tickPending, stopClosed, hs, cs, ks, rq, ps>>

\* A run that logs the error of json.Marshal and goes on.
AbortsOnMarshalError_LogsOnly(err) == FALSE

\* Lines 177-181: `return err` when json.Marshal failed.
AbortsOnMarshalError(err) == err

\* Lines 108-181: pentagon, fallback, Calculate, UpdateHistory, json.Marshal.
\* now: what time.Now() reads, not before the last reading; hashLow: the md5
\* digit of today's date; marshalOk: json.Marshal succeeds.
Score(c, now, hashLow, marshalOk) ==
    /\ run[c].pc = "score"
    /\ clock' = now
    /\ LET pentagon == PentagonAt(now, hashLow)
           eff == [sig \in ApiSignals |-> Fallback(sig, run[c].slot[sig], run[c].currentData)]
           typed == WithPentagon([sig \in ApiSignals |-> eff[sig].data], pentagon)
           raw == [sig \in Signals |->
                      IF sig = "pentagon" THEN GoMap(pentagonRawMap(pentagon))
                      ELSE eff[sig].raw]
       IN  \E scores \in {CalculateAll(typed)} :
           \E snapshot \in {UpdateHistory(run[c].currentData, scores, raw, now)} :
           IF ~AbortsOnMarshalError(~marshalOk)
           THEN /\ run' = [run EXCEPT ![c].pc = "save", ![c].scores = scores,
                                      ![c].snapshot = snapshot,
                                      ![c].data = MarshalSnapshot(snapshot),
                                      ![c].marshalErr = ~marshalOk]
                /\ UNCHANGED active
           ELSE /\ run' = [run EXCEPT ![c].pc = "idle", ![c].scores = scores,
                                      ![c].snapshot = snapshot,
                                      ![c].result = "error", ![c].failedAt = "marshal",
                                      ![c].marshalErr = TRUE]
                /\ active' = active - 1
    /\ UNCHANGED <<store, fetchLog, cache, runsStarted,
                   mainPc, schedPc, tickPending, stopClosed, hs, cs, ks, rq, ps>>

\* The directly fetched values behind each raw_data of the snapshot run c
\* writes: the fetcher's typed result, on an error those behind the raw_data
\* taken over from the previous snapshot, None when there are none.
Fetched(c) ==
    [sig \in ApiSignals |->
        IF ~run[c].slot[sig].err THEN run[c].slot[sig].data
        ELSE IF HasPreviousRaw(run[c].currentData, sig) THEN fetchLog[run[c].loaded][sig]
        ELSE None]

\* A run that writes the cache before it looks at SaveSnapshot's error.
Save_CacheFirst(c, saveOk) ==
    /\ run[c].pc = "save"
    /\ cache' = CacheSet(run[c].data, clock)
    /\ IF saveOk
       THEN /\ store' = StoreInsert(store, run[c].data)
            /\ fetchLog' = Append(fetchLog, Fetched(c))
            /\ run' = [run EXCEPT ![c].pc = "cache"]
            /\ UNCHANGED active
       ELSE /\ run' = [run EXCEPT ![c].pc = "idle", ![c].result = "error",
                                  ![c].failedAt = "save"]
            /\ active' = active - 1
            /\ UNCHANGED <<store, fetchLog>>
    /\ UNCHANGED <<clock, runsStarted, mainPc, schedPc, tickPending, stopClosed, hs, cs, ks, rq, ps>>

\* Lines 183-187: SaveSnapshot.  saveOk: the INSERT succeeded; ExecContext
\* returns the context's error when ctx is done.
Save(c, saveOk) ==
    /\ run[c].pc = "save"
    /\ IF saveOk /\ ~run[c].ctxDone
       THEN /\ store' = StoreInsert(store, run[c].data)
            /\ fetchLog' = Append(fetchLog, Fetched(c))
            /\ run' = [run EXCEPT ![c].pc = "cache"]
            /\ UNCHANGED active
       ELSE /\ run' = [run EXCEPT ![c].pc = "idle", ![c].result = "error",
                                  ![c].failedAt = "save"]
            /\ active' = active - 1
            /\ UNCHANGED <<store, fetchLog>>
    /\ UNCHANGED <<cache, clock, runsStarted, mainPc, schedPc, tickPending, stopClosed, hs, cs, ks, rq, ps>>

\* Lines 189-193: cache.Set, return nil.  The cache is stamped with the
\* time last read.
Publish(c) ==
    /\ run[c].pc = "cache"
    /\ cache' = CacheSet(run[c].data, clock)
    /\ run' = [run EXCEPT ![c].pc = "idle", ![c].result = "nil"]
    /\ active' = active - 1
    /\ UNCHANGED <<store, fetchLog, clock, runsStarted, mainPc, schedPc,
                   tickPending, stopClosed, hs, cs, ks, rq, ps>>

\* ================================================= main and Scheduler
\* A main that starts the scheduler beside the initial run.
InitialRunDone_NotAwaited == TRUE

\* main calls p.Run and only then goes on to start the scheduler.
InitialRunDone == run["main"].pc = "idle" /\ run["main"].result # "none"

\* Scheduler.Start calls s.pipeline.Run inside the select loop and is
\* blocked in it until it returns.
SchedPcInRun == "running"

\* The upstream behaviours a run of the whole process is checked against,
\* and those a single run is checked against.
FailSets == {{}, ApiSignals}
ProcessUpstreams == {Upstream(Tense, F, FALSE) : F \in FailSets}
AllUpstreams == {Upstream(Tense, F, stale) : F \in SUBSET ApiSignals, stale \in BOOLEAN}

\* What is left of a run once its caller has its return value.
Returned(r) == [IdleRun EXCEPT !.result = r.result]

\* main: "Run pipeline once immediately on startup".
MainInitialRun(upstreams) ==
    /\ mainPc = "boot"
    /\ \E dbOk \in BOOLEAN, ups \in upstreams : RunBegin("main", dbOk, ups)
    /\ mainPc' = "initialRun"
    /\ UNCHANGED <<store, fetchLog, cache, clock, schedPc, tickPending, stopClosed, hs, cs, ks, rq, ps>>

\* A ticker that delivers a tick the moment it is created.
FirstTickAtStart_Immediate == TRUE

\* time.NewTicker(s.interval): the first tick comes after one interval, so
\* ticker.C is empty when the ticker is created.
FirstTickAtStart == FALSE

\* main: the initial run has returned (its error is only logged);
\* go sched.Start(..), which creates the ticker; the HTTP server starts.
MainStartScheduler ==
    /\ mainPc = "initialRun"
    /\ InitialRunDone
    /\ mainPc' = "serving"
    /\ schedPc' = "select"
    /\ tickPending' = FirstTickAtStart
    /\ run' = [run EXCEPT !["main"] = Returned(@)]
    /\ UNCHANGED <<store, fetchLog, cache, clock, active, runsStarted,
                   stopClosed, hs, cs, ks, rq, ps>>

\* main: a signal arrives; sched.Stop() closes the stop channel.
MainShutdown ==
    /\ mainPc = "serving"
    /\ mainPc' = "done"
    /\ stopClosed' = TRUE
    /\ UNCHANGED <<store, fetchLog, cache, clock, run, active, runsStarted,
                   schedPc, tickPending, hs, cs, ks, rq, ps>>

\* The ticker's interval elapses: a tick is put in ticker.C unless one is
\* already waiting there.
TickerFire ==
    /\ schedPc \in {"select", "running"}
    /\ ~tickPending
    /\ tickPending' = TRUE
    /\ UNCHANGED <<store, fetchLog, cache, clock, run, active, runsStarted,
                   mainPc, schedPc, stopClosed, hs, cs, ks, rq, ps>>

\* Scheduler.Start: select takes the tick and calls s.pipeline.Run.
SchedTrigger(upstreams, cap) ==
    /\ schedPc = "select"
    /\ tickPending
    /\ runsStarted < cap
    /\ tickPending' = FALSE
    /\ \E dbOk \in BOOLEAN, ups \in upstreams : RunBegin("sched", dbOk, ups)
    /\ schedPc' = SchedPcInRun
    /\ UNCHANGED <<store, fetchLog, cache, clock, mainPc, stopClosed, hs, cs, ks, rq, ps>>

\* A scheduler that returns from Start when a run fails.
SchedPcAfterRun_StopsOnError(result) == IF result = "error" THEN "stopped" ELSE "select"

\* Lines 86-88: the error of Run is logged and the loop goes on.
SchedPcAfterRun(result) == "select"

\* Scheduler.Start: Run has returned (its error is only logged); back to select.
SchedRunReturned ==
    /\ schedPc = "running"
    /\ run["sched"].pc = "idle"
    /\ schedPc' = SchedPcAfterRun(run["sched"].result)
    /\ run' = [run EXCEPT !["sched"] = Returned(@)]
    /\ UNCHANGED <<store, fetchLog, cache, clock, active, runsStarted,
                   mainPc, tickPending, stopClosed, hs, cs, ks, rq, ps>>

\* Scheduler.Start: select takes the closed stop channel and returns.
SchedStop ==
    /\ schedPc = "select"
    /\ stopClosed
    /\ schedPc' = "stopped"
    /\ UNCHANGED <<store, fetchLog, cache, clock, run, active, runsStarted,
                   mainPc, tickPending, stopClosed, hs, cs, ks, rq, ps>>

\* The snapshots table as the process finds it: empty, or holding what an
\* earlier process wrote.
StoreSeedShapes == {<<0, 1, 0>>, <<0, 2, 1>>}

SeededStore(shape) ==
    /\ store = <<SeedBytes(shape)>>
    /\ fetchLog = <<Quiet>>
    /\ clock = shape[3]

Init ==
    /\ cache = [data |-> None, updatedAt |-> -1]
    /\ run = [c \in Callers |-> IdleRun]
    /\ active = 0
    /\ runsStarted = 0
    /\ mainPc = "boot"
    /\ schedPc = "off"
    /\ tickPending = FALSE
    /\ stopClosed = FALSE
    /\ hs = HistIdle
    /\ cs = CacheIdle
    /\ ks = CalcIdle
    /\ rq = [h \in Handlers |-> ReqIdle]
    /\ ps = PulseIdle
    /\ \/ (store = <<>> /\ fetchLog = <<>> /\ clock = 0)
       \/ (store = <<NotJSON>> /\ fetchLog = <<Quiet>> /\ clock = 0)
       \/ \E shape \in StoreSeedShapes : SeededStore(shape)

\* The readings time.Now() can give after a reading of t: any later instant,
\* or only those up to six hours later.
Later(t) == t..MaxNow
Soon(t) == t..Min(MaxNow, t + 1)

\* The steps of a run after its fetches; hashes: the md5 digits drawn from.
RunTail(c, times, hashes) ==
    \/ \E now \in times, hashLow \in hashes, marshalOk \in BOOLEAN :
          Score(c, now, hashLow, marshalOk)
    \/ \E saveOk \in BOOLEAN : Save(c, saveOk)
    \/ Publish(c)

\* The steps of a run, fetcher by fetcher.
RunStep(c) ==
    \/ \E sig \in GroupFetchers : FetchReturn(c, sig)
    \/ Join(c)
    \/ TankerCall(c)
    \/ TankerReturn(c)
    \/ RunTail(c, Later(clock), BOOLEAN)

Next ==
    \/ MainInitialRun(ProcessUpstreams)
    \/ MainStartScheduler
    \/ MainShutdown
    \/ TickerFire
    \/ SchedTrigger(ProcessUpstreams, MaxRuns)
    \/ SchedRunReturned
    \/ SchedStop
    \/ \E c \in Callers : Gather(c) \/ RunTail(c, Soon(clock), {FALSE})

Spec == Init /\ [][Next]_vars

\* ================================================ the scheduler's progress
\* The process with every source answering and the clock standing still:
\* what varies is which runs fail (load, json.Marshal, SaveSnapshot) and
\* when the ticker fires and main shuts down.
LiveUpstreams == {Upstream(Tense, {}, FALSE)}

LiveRunStep == \E c \in Callers : Gather(c) \/ RunTail(c, {clock}, {FALSE})

LiveSelect == SchedTrigger(LiveUpstreams, MaxLiveRuns) \/ SchedStop

LiveNext ==
    \/ MainInitialRun(LiveUpstreams)
    \/ MainStartScheduler
    \/ MainShutdown
    \/ TickerFire
    \/ LiveSelect
    \/ SchedRunReturned
    \/ LiveRunStep

\* main and the scheduler's goroutine are scheduled: main goes on once its
\* startup run has returned, the scheduler goes back to its select once a
\* run has returned, and a select with a ready case takes one; the ticker
\* fires every interval.  Nothing is assumed of the shutdown signal, which
\* may never come, nor of how long a run takes.
LiveFairness ==
    /\ WF_vars(MainStartScheduler)
    /\ WF_vars(TickerFire)
    /\ WF_vars(LiveSelect)
    /\ WF_vars(SchedRunReturned)

SpecLive == Init /\ [][LiveNext]_vars /\ LiveFairness

\* ==================================================== Server.handleData
\* The body http.Error writes.
ErrorBody(text) == [t |-> "text", s |-> text]

\* The response written and the handler back between two requests.
Respond(r, status, body) ==
    [r EXCEPT !.pc = "idle", !.status = status, !.body = body, !.served = @ + 1]

\* A handler that goes to the database whatever the cache holds.
ServesFromCache_Never(data) == FALSE

\* Line 23: `if data == nil` is false, the cached bytes are the answer.
ServesFromCache(data) == data # None

\* Lines 9-23: a request arrives while the server is serving; the method
\* checks, then cache.Get().
HandleDataBegin(h, method) ==
    /\ mainPc = "serving"
    /\ rq[h].pc = "idle"
    /\ rq[h].served < MaxRequests
    /\ LET r == [ReqIdle EXCEPT !.method = method, !.served = rq[h].served]
           data == CacheGet(cache)
       IN  rq' = [rq EXCEPT ![h] =
                 IF method = "OPTIONS" THEN Respond(r, 204, None)
                 ELSE IF method # "GET" THEN Respond(r, 405, ErrorBody("method not allowed"))
                 ELSE IF ServesFromCache(data)
                      THEN Respond([r EXCEPT !.cacheSeen = data, !.data = data], 200, data)
                      ELSE [r EXCEPT !.cacheSeen = data, !.pc = "query"]]
    /\ UNCHANGED <<progVars, hs, cs, ks, ps>>

\* Lines 24-36: store.LatestSnapshot; an error is answered with 500, no
\* row with 404.  dbOk: the query succeeded.
HandleDataQuery(h, dbOk) ==
    /\ rq[h].pc = "query"
    /\ LET data == StoreLatest(store)
           r == [rq[h] EXCEPT !.queried = TRUE]
       IN  rq' = [rq EXCEPT ![h] =
                 IF ~dbOk
                 THEN Respond([r EXCEPT !.dbErr = TRUE], 500,
                              ErrorBody("{\"error\":\"internal server error\"}"))
                 ELSE IF data = None
                      THEN Respond(r, 404, ErrorBody("{\"error\":\"no data available\"}"))
                      ELSE [r EXCEPT !.pc = "set", !.data = data, !.stored = data]]
    /\ UNCHANGED <<progVars, hs, cs, ks, ps>>

\* Lines 37-43: cache.Set(data), then the bytes are written.
HandleDataSet(h) ==
    /\ rq[h].pc = "set"
    /\ cache' = CacheSet(rq[h].data, clock)
    /\ rq' = [rq EXCEPT ![h] = Respond([@ EXCEPT !.didSet = TRUE], 200, rq[h].data)]
    /\ UNCHANGED <<store, fetchLog, clock, run, active, runsStarted,
                   mainPc, schedPc, tickPending, stopClosed, hs, cs, ks, ps>>

Methods == {"GET", "OPTIONS", "POST"}

\* The process with its HTTP server: runs and data requests interleave.
ServeNext ==
    \/ MainInitialRun(LiveUpstreams)
    \/ MainStartScheduler
    \/ MainShutdown
    \/ TickerFire
    \/ SchedTrigger(LiveUpstreams, MaxRuns)
    \/ SchedStop
    \/ SchedRunReturned
    \/ LiveRunStep
    \/ \E h \in Handlers :
          \/ \E method \in Methods : HandleDataBegin(h, method)
          \/ \E dbOk \in BOOLEAN : HandleDataQuery(h, dbOk)
          \/ HandleDataSet(h)

SpecServe == Init /\ [][ServeNext]_vars

\* =============================================== one run, every failure
\* The startup run of a process against every combination of failing
\* upstream sources.
RunNext ==
    \/ MainInitialRun(AllUpstreams)
    \/ RunStep("main")
    \/ Tick

SpecRun == Init /\ [][RunNext]_vars

\* ================================================ one run, ctx cancelled
\* The ctx handed to Run is cancelled while the run is under way.  Run
\* passes ctx to LatestSnapshot and SaveSnapshot only: the group's context
\* is dropped (`g, _ := errgroup.WithContext(ctx)`) and the fetchers take
\* none, so the step changes nothing the fetchers or the sleep look at.
CtxCancel(c) ==
    /\ run[c].pc # "idle"
    /\ ~run[c].ctxDone
    /\ run' = [run EXCEPT ![c].ctxDone = TRUE,
                          ![c].inflightAtCancel =
                              {sig \in ApiSignals : run[c].slot[sig].state = "inflight"}]
    /\ UNCHANGED <<store, fetchLog, cache, clock, active, runsStarted,
                   mainPc, schedPc, tickPending, stopClosed, hs, cs, ks, rq, ps>>

CancelNext ==
    \/ MainInitialRun(ProcessUpstreams)
    \/ RunStep("main")
    \/ Tick
    \/ CtxCancel("main")

SpecCancel == Init /\ [][CancelNext]_vars

\* ============================================== pulse.Tracker alone
\* Calls of LogVisit and GetStats from the goroutines of the server, each
\* in the steps other calls can come between.
PulseInit ==
    /\ ProgIdle
    /\ hs = HistIdle
    /\ cs = CacheIdle
    /\ ks = CalcIdle
    /\ rq = [h \in Handlers |-> ReqIdle]
    /\ ps = PulseIdle

\* A lock that lets every caller in.
TrackerCanLock_Unguarded(mu) == TRUE

\* t.mu.Lock() returns when no goroutine holds the mutex.
TrackerCanLock(mu) == mu = "none"

\* Lines 93-97 and 123: now := time.Now(), read before the lock is asked
\* for; LogVisit turns an empty country code into "XX".
PulseBegin(p, op, countryCode) ==
    /\ ps.call[p].pc = "idle"
    /\ ps.calls < MaxPulseCalls
    /\ ps' = [ps EXCEPT
                !.calls = @ + 1,
                !.overlapped = @ \/ \E q \in PulseCallers \ {p} : ps.call[q].pc # "idle",
                !.call[p] = [CallIdle EXCEPT
                                !.pc = "lock", !.op = op, !.arg = countryCode,
                                !.countryCode = IF op = "LogVisit" /\ countryCode = ""
                                                THEN "XX" ELSE countryCode,
                                !.now = ps.clock]]
    /\ UNCHANGED <<progVars, hs, cs, ks, rq>>

\* Lines 99-101 and 125-126: t.mu.Lock(), t.trimOldVisits(now).
PulseLock(p) ==
    /\ ps.call[p].pc = "lock"
    /\ TrackerCanLock(ps.mu)
    /\ ps' = [ps EXCEPT
                !.mu = p,
                !.visits = trimOldVisits(ps.visits, ps.call[p].now),
                !.call[p].seen = ps.visits,
                !.call[p].pc = IF ps.call[p].op = "LogVisit" THEN "append" ELSE "stats"]
    /\ UNCHANGED <<progVars, hs, cs, ks, rq>>

\* Line 104, first half: append reads t.visits.
PulseAppendLoad(p) ==
    /\ ps.call[p].pc = "append"
    /\ ps' = [ps EXCEPT !.call[p].held = ps.visits, !.call[p].pc = "store"]
    /\ UNCHANGED <<progVars, hs, cs, ks, rq>>

\* Lines 104-118: t.visits is assigned the slice with the visit appended,
\* cut to maxVisits; the stats are computed, the lock released.
PulseAppendStore(p) ==
    /\ ps.call[p].pc = "store"
    /\ LET c == ps.call[p]
           visits == EnforceMax(Append(c.held, Visit(c.now, c.countryCode)))
       IN  ps' = [ps EXCEPT
                    !.visits = visits,
                    !.mu = "none",
                    !.call[p].after = visits,
                    !.call[p].stats = calculateStats(visits, c.now),
                    !.call[p].returned = TRUE,
                    !.call[p].pc = "idle"]
    /\ UNCHANGED <<progVars, hs, cs, ks, rq>>

\* Lines 127-130: GetStats computes the stats and releases the lock.
PulseStats(p) ==
    /\ ps.call[p].pc = "stats"
    /\ ps' = [ps EXCEPT
                !.mu = "none",
                !.call[p].after = ps.visits,
                !.call[p].stats = calculateStats(ps.visits, ps.call[p].now),
                !.call[p].returned = TRUE,
                !.call[p].pc = "idle"]
    /\ UNCHANGED <<progVars, hs, cs, ks, rq>>

\* Time passes: the next reading of time.Now() is a later instant.
PulseTime ==
    /\ \E t \in PulseInstants :
          /\ t > ps.clock
          /\ ps' = [ps EXCEPT !.clock = t]
    /\ UNCHANGED <<progVars, hs, cs, ks, rq>>

CountryCodes == {"", "IL"}

PulseNext ==
    \/ \E p \in PulseCallers, countryCode \in CountryCodes :
          PulseBegin(p, "LogVisit", countryCode)
    \/ \E p \in PulseCallers : PulseBegin(p, "GetStats", "")
    \/ \E p \in PulseCallers : PulseLock(p)
    \/ \E p \in PulseCallers : PulseAppendLoad(p)
    \/ \E p \in PulseCallers : PulseAppendStore(p)
    \/ \E p \in PulseCallers : PulseStats(p)
    \/ PulseTime

SpecPulse == PulseInit /\ [][PulseNext]_vars

\* ============================================ the history manager alone
\* UpdateHistory applied run after run to what storage holds.
HistInit ==
    /\ ProgIdle
    /\ cs = CacheIdle
    /\ ks = CalcIdle
    /\ rq = [h \in Handlers |-> ReqIdle]
    /\ ps = PulseIdle
    /\ \/ hs = HistIdle
       \/ \E shape \in SeedShapes :
          \E bytes \in {SeedBytes(shape)} :
          \E current \in {ParseSnapshot(bytes)}
                          \cup (IF shape = AppendedShape
                                THEN {ParseSnapshot(AppendedSeedBytes(bytes, shape[3]))}
                                ELSE {}) :
             hs = [HistIdle EXCEPT !.current = current,
                                   !.now = shape[3], !.fresh = FALSE,
                                   !.len0 = Len(ExistingTotalRiskHistory(current))]

HistRun ==
    /\ hs.runs < MaxHistRuns
    /\ \E prof \in {Quiet, Tense}, t \in hs.now..MaxNow, hashLow \in BOOLEAN :
          LET r == WithPentagon(prof, PentagonAt(t, hashLow))
              raw == [sig \in Signals |-> GoMap(RawMapOf(sig, r[sig]))]
          IN  \E scores \in {CalculateAll(r)} :
              \E snap \in {UpdateHistory(hs.current, scores, raw, t)} :
              hs' = [current |-> ParseSnapshot(MarshalSnapshot(snap)),
                     before |-> hs.current, ran |-> TRUE, snap |-> snap,
                     scores |-> scores, now |-> t, runs |-> hs.runs + 1,
                     fresh |-> hs.fresh, len0 |-> hs.len0]
    /\ UNCHANGED <<progVars, cs, ks, rq, ps>>

HistNext == HistRun

SpecHist == HistInit /\ [][HistNext]_vars

\* ============================================== cache.Cache alone
\* Set, line 21: c.mu.Lock().
SetLock(w) ==
    /\ cs.set[w].pc = "idle"
    /\ cs.set[w].calls < MaxCalls
    /\ CanLock(cs.writer, cs.readers)
    /\ cs' = [cs EXCEPT !.writer = w,
                        !.set[w].pc = "make",
                        !.set[w].passed = cs.heap[InRef(w)]]
    /\ UNCHANGED <<progVars, hs, ks, rq, ps>>

\* Set, line 22: c.data = make([]byte, len(data)).  The array c.data
\* pointed to is garbage unless a reader is copying from it.
SetMake(w) ==
    /\ cs.set[w].pc = "make"
    /\ LET new == CacheRef(w, cs.set[w].calls)
           inUse == \E r \in Getters : cs.get[r].pc = "copy" /\ cs.get[r].src = cs.data
           kept == IF inUse THEN cs.heap ELSE Without(cs.heap, cs.data)
       IN  cs' = [cs EXCEPT !.heap = With(kept, new, Zeroed(Len(cs.heap[InRef(w)]))),
                            !.data = new,
                            !.set[w].pc = "copy",
                            !.set[w].i = 1]
    /\ UNCHANGED <<progVars, hs, ks, rq, ps>>

\* Set, line 23: copy(c.data, data), one byte.
SetCopy(w) ==
    /\ cs.set[w].pc = "copy"
    /\ cs.set[w].i <= Len(cs.heap[cs.data])
    /\ cs' = [cs EXCEPT !.heap[cs.data][cs.set[w].i] = cs.heap[InRef(w)][cs.set[w].i],
                        !.set[w].i = @ + 1]
    /\ UNCHANGED <<progVars, hs, ks, rq, ps>>

\* Set, lines 24-25: c.updatedAt = time.Now(); c.mu.Unlock().
SetUnlock(w) ==
    /\ cs.set[w].pc = "copy"
    /\ cs.set[w].i > Len(cs.heap[cs.data])
    /\ cs' = [cs EXCEPT !.updatedAt = cs.stamps + 1,
                        !.stamps = @ + 1,
                        !.writer = "none",
                        !.last = cs.set[w].passed,
                        !.completed = @ \cup {cs.set[w].passed},
                        !.set[w].pc = "idle",
                        !.set[w].calls = @ + 1]
    /\ UNCHANGED <<progVars, hs, ks, rq, ps>>

\* The caller of Set writes into its own buffer after Set has returned.
CallerMutate(w) ==
    /\ cs.set[w].pc = "idle"
    /\ cs.set[w].calls >= 1
    /\ cs.heap[InRef(w)][1] # Scribble
    /\ cs' = [cs EXCEPT !.heap[InRef(w)][1] = Scribble]
    /\ UNCHANGED <<progVars, hs, ks, rq, ps>>

\* Get, line 30: c.mu.RLock().  The result of the caller's earlier Get is
\* dropped.
GetRLock(r) ==
    /\ cs.get[r].pc = "idle"
    /\ cs.get[r].calls < MaxCalls
    /\ CanRLock(cs.writer)
    /\ cs' = [cs EXCEPT !.readers = @ \cup {r},
                        !.heap = Without(@, cs.get[r].out),
                        !.get[r].pc = "check",
                        !.get[r].out = NilRef,
                        !.get[r].returned = FALSE,
                        !.get[r].sawSet = cs.completed # {}]
    /\ UNCHANGED <<progVars, hs, ks, rq, ps>>

\* Get, lines 32-35: the nil test, out := make([]byte, len(c.data)).
GetCheck(r) ==
    /\ cs.get[r].pc = "check"
    /\ IF cs.data = NilRef
       THEN cs' = [cs EXCEPT !.get[r].pc = "return"]
       ELSE LET out == OutRef(r, cs.get[r].calls)
            IN  cs' = [cs EXCEPT !.heap = With(@, out, Zeroed(Len(cs.heap[cs.data]))),
                                 !.get[r].pc = "copy",
                                 !.get[r].src = cs.data,
                                 !.get[r].out = out,
                                 !.get[r].i = 1]
    /\ UNCHANGED <<progVars, hs, ks, rq, ps>>

\* Get, line 36: copy(out, c.data), one byte.
GetCopy(r) ==
    /\ cs.get[r].pc = "copy"
    /\ cs.get[r].i <= Len(cs.heap[cs.get[r].out])
    /\ cs' = [cs EXCEPT !.heap[cs.get[r].out][cs.get[r].i] =
                            cs.heap[cs.get[r].src][cs.get[r].i],
                        !.get[r].i = @ + 1]
    /\ UNCHANGED <<progVars, hs, ks, rq, ps>>

\* Get, lines 33 and 37 with the deferred RUnlock: return nil, return out.
GetReturn(r) ==
    /\ \/ cs.get[r].pc = "return"
       \/ (cs.get[r].pc = "copy" /\ cs.get[r].i > Len(cs.heap[cs.get[r].out]))
    /\ cs' = [cs EXCEPT !.readers = @ \ {r},
                        !.get[r].pc = "idle",
                        !.get[r].calls = @ + 1,
                        !.get[r].src = NilRef,
                        !.get[r].returned = TRUE,
                        !.get[r].gotNil = (cs.get[r].out = NilRef),
                        !.get[r].got = IF cs.get[r].out = NilRef THEN <<>>
                                       ELSE cs.heap[cs.get[r].out]]
    /\ UNCHANGED <<progVars, hs, ks, rq, ps>>

\* The caller of Get writes into the slice it was given.
ReaderMutate(r) ==
    /\ cs.get[r].pc = "idle"
    /\ cs.get[r].returned
    /\ cs.get[r].out # NilRef
    /\ cs.heap[cs.get[r].out][1] # Scribble
    /\ cs' = [cs EXCEPT !.heap[cs.get[r].out][1] = Scribble]
    /\ UNCHANGED <<progVars, hs, ks, rq, ps>>

CacheInit ==
    /\ ProgIdle
    /\ hs = HistIdle
    /\ cs = CacheIdle
    /\ ks = CalcIdle
    /\ rq = [h \in Handlers |-> ReqIdle]
    /\ ps = PulseIdle

CacheNext ==
    \/ \E w \in Setters :
          SetLock(w) \/ SetMake(w) \/ SetCopy(w) \/ SetUnlock(w) \/ CallerMutate(w)
    \/ \E r \in Getters :
          GetRLock(r) \/ GetCheck(r) \/ GetCopy(r) \/ GetReturn(r) \/ ReaderMutate(r)

SpecCache == CacheInit /\ [][CacheNext]_vars

\* ============================================== risk.Calculate alone
\* An input of Calculate as <<TotalCount, AlertCount, connectivity Risk,
\* AircraftCount, TankerCount, Clouds, Odds, RiskContribution>>.
CalcInputOf(v) ==
    [news |-> [TotalCount |-> v[1], AlertCount |-> v[2]],
     connectivity |-> [Status |-> IF v[3] >= 25 THEN "BLACKOUT"
                                  ELSE IF v[3] >= 20 THEN "CRITICAL"
                                  ELSE IF v[3] >= 10 THEN "ANOMALOUS" ELSE "STABLE",
                       Risk |-> v[3], Trend |-> 0],
     flight |-> [AircraftCount |-> v[4]],
     tanker |-> [TankerCount |-> v[5]],
     weather |-> [Clouds |-> v[6], Description |-> ""],
     polymarket |-> [Odds |-> v[7]],
     pentagon |-> [RiskContribution |-> v[8],
                   Status |-> IF v[8] >= 10 THEN "High Activity"
                              ELSE IF v[8] >= 7 THEN "Elevated"
                              ELSE IF v[8] >= 3 THEN "Normal" ELSE "Low Activity",
                   IsLateNight |-> FALSE, IsWeekend |-> FALSE]]

\* No alert among ten articles, line up, 50 aircraft, no tanker, a clear
\* sky, no odds, the pentagon contribution of an activity score of 30.
Benign == <<10, 0, 0, 50, 0, 0, 0, 1>>
\* Scores 10 0 18 0 12 10 0: the weighted total is 7.5, nothing elevated.
PlainTie == <<20, 7, 0, 96, 0, 40, 12, 1>>
\* Scores 3 38 92 40 60 100 60: the weighted total is 50, five elevated.
EscalatedTie == <<10, 0, 10, 4, 4, 10, 60, 10>>
\* Every score is 30, nothing elevated.  (Calculate takes any connectivity
\* risk; the fetcher returns 0, 10, 20 or 25.)
AllThirty == <<22, 13, 8, 81, 3, 13, 30, 3>>
\* Every signal at its worst: more alerts than (deduplicated) articles,
\* eleven tankers.
Extreme == <<4, 6, 25, 0, 11, 0, 60, 10>>

BaseVectors == {Benign, PlainTie, EscalatedTie, AllThirty, Extreme}

\* fetchNews counts the alerts before it removes duplicate titles and the
\* articles after: the alert count can exceed the article count.
NewsCounts == {<<0, 0>>, <<10, 0>>, <<10, 8>>, <<20, 7>>, <<4, 6>>, <<1, 3>>}
ConnRisks == {0, 10, 20, 25}
AircraftCounts == {0, 4, 50, 96, 150}
TankerCounts == {0, 4, 6, 11}
CloudCovers == {0, 10, 13, 40, 100}
OddsValues == {-5, 0, 12, 60, 96, 120}
Contributions == {1, 3, 7, 10}

\* The vectors that differ from b in one signal.
Vary(b) ==
    {[b EXCEPT ![1] = n[1], ![2] = n[2]] : n \in NewsCounts}
    \cup {[b EXCEPT ![3] = x] : x \in ConnRisks}
    \cup {[b EXCEPT ![4] = x] : x \in AircraftCounts}
    \cup {[b EXCEPT ![5] = x] : x \in TankerCounts}
    \cup {[b EXCEPT ![6] = x] : x \in CloudCovers}
    \cup {[b EXCEPT ![7] = x] : x \in OddsValues}
    \cup {[b EXCEPT ![8] = x] : x \in Contributions}

CalcVectors == UNION {Vary(b) : b \in BaseVectors}

\* The inputs a later invocation is made with, besides the same again.
ReplayVectors == {Benign, Extreme}

\* The elevated count kept from the invocation before and counted on.
Invoke_CountsOn(r, earlier) ==
    [CalculateAll(r) EXCEPT !.ElevatedCount =
        @ + (IF earlier = <<>> THEN 0 ELSE Last(earlier)[2].ElevatedCount)]

\* Calculate has no receiver and reads no package-level variable: its
\* result is a function of the seven parameters; `earlier`, the
\* invocations made so far with their results, is not read.
Invoke(r, earlier) == CalculateAll(r)

CalcInit ==
    /\ ProgIdle
    /\ hs = HistIdle
    /\ cs = CacheIdle
    /\ rq = [h \in Handlers |-> ReqIdle]
    /\ ps = PulseIdle
    /\ \E v \in CalcVectors : ks = [CalcIdle EXCEPT !.next = v]

\* One invocation of Calculate, and the choice of the next input.
CalcInvoke ==
    /\ ks.calls < MaxCalcCalls
    /\ \E out \in {Invoke(CalcInputOf(ks.next), ks.log)} :
       \E nxt \in {ks.next} \cup (IF ks.calls + 1 < MaxCalcCalls THEN ReplayVectors ELSE {}) :
          ks' = [next |-> nxt,
                 last |-> [in |-> ks.next, out |-> out],
                 log |-> Append(ks.log, <<ks.next, out>>),
                 calls |-> ks.calls + 1]
    /\ UNCHANGED <<progVars, hs, cs, rq, ps>>

CalcNext == CalcInvoke

SpecCalc == CalcInit /\ [][CalcNext]_vars


\* ===================================================== pipeline claims
\* Run c has computed its scores.
Scored(c) ==
    \/ run[c].pc \in {"save", "cache"}
    \/ (run[c].pc = "idle" /\ run[c].failedAt \in {"marshal", "save"})
    \/ (run[c].pc = "idle" /\ run[c].result = "nil" /\ run[c].upstream # None)

\* Run c has returned and its caller has not gone on yet.
Over(c) == run[c].pc = "idle" /\ run[c].result # "none" /\ run[c].upstream # None

\* The score Calculate gives signal sig for the typed result v.
DirectScore(sig, v) ==
    CalculateAll(WithPentagon([Tense EXCEPT ![sig] = v], PentagonAt(0, FALSE)))[sig].Risk

\* C1: when SaveSnapshot fails, Run returns the error and the cache, bytes
\* and updatedAt, is what it was when the run started.
C1_SaveFailureLeavesCache ==
    \A c \in Callers :
        (run[c].pc = "idle" /\ run[c].failedAt = "save") =>
            /\ run[c].result = "error"
            /\ cache = run[c].cacheAtStart

C1_Witness ==
    /\ run["sched"].pc = "idle"
    /\ run["sched"].failedAt = "save"
    /\ cache.data.t # "none"
    /\ cache.data # run["sched"].data

\* C2: whichever of the six API fetchers fail, the run scores all seven
\* signals and never returns because of a fetch error; when json.Marshal and
\* SaveSnapshot succeed it has inserted one snapshot, set the cache to it and
\* returned nil.
C2_FetchErrorsNeverFatal ==
    \A c \in Callers :
        Over(c) =>
            /\ run[c].failedAt \in {"none", "marshal", "save"}
            /\ \A sig \in Signals : run[c].scores[sig].Risk >= 0
            /\ run[c].failedAt = "none" =>
                  /\ run[c].result = "nil"
                  /\ Len(store) = run[c].storeAtStart + 1
                  /\ Last(store) = run[c].data
                  /\ cache.data = run[c].data

C2_Witness ==
    /\ Over("main")
    /\ run["main"].result = "nil"
    /\ \A sig \in ApiSignals : run["main"].slot[sig].err
    /\ Len(store) = run["main"].storeAtStart + 1

\* C3: when a fetcher fails and the loaded snapshot holds the signal's
\* raw_data from an earlier run in which the fetcher succeeded, the run's
\* score of the signal is the one Calculate gives the values fetched then.
C3_FallbackScoresAsFetched ==
    \A c \in Callers : \A sig \in ApiSignals :
        (/\ Scored(c)
         /\ run[c].slot[sig].err
         /\ HasPreviousRaw(run[c].currentData, sig)
         /\ fetchLog[run[c].loaded][sig] # None) =>
            run[c].scores[sig].Risk = DirectScore(sig, fetchLog[run[c].loaded][sig])

C3_Witness ==
    /\ Scored("sched")
    /\ \A sig \in ApiSignals :
          /\ run["sched"].slot[sig].err
          /\ HasPreviousRaw(run["sched"].currentData, sig)
          /\ fetchLog[run["sched"].loaded][sig] # None
          /\ run["sched"].scores[sig].Risk > 0
    /\ run["sched"].loaded = 2

\* C4: FetchAviation and FetchTanker are never in flight together, and
\* FetchTanker is called no sooner than 2 seconds after FetchAviation
\* returned.
C4_AviationTankerApart ==
    \A c \in Callers :
        /\ ~(run[c].slot["flight"].state = "inflight" /\ run[c].slot["tanker"].state = "inflight")
        /\ run[c].slot["tanker"].state # "idle" =>
              /\ run[c].slot["flight"].state = "done"
              /\ run[c].gapAtTanker >= 2

C4_Witness ==
    /\ run["main"].pc = "tanker"
    /\ run["main"].slot["tanker"].state = "inflight"
    /\ run["main"].slot["flight"].state = "done"
    /\ run["main"].gapAtTanker >= 2

\* C5: the run goes past the join only when every fetcher of the group has
\* returned; a fetcher's slot holds its own result and error whatever its
\* siblings returned, and nothing is written to the slot of a fetcher
\* still in flight.
C5_JoinWaitsSlotsIsolated ==
    \A c \in Callers :
        /\ (run[c].pc \in {"sleeping", "tanker", "score", "save", "cache"} \/ Over(c)) =>
              \A sig \in GroupFetchers : run[c].slot[sig].state = "done"
        /\ \A sig \in GroupFetchers :
              /\ run[c].slot[sig].state = "done" =>
                    run[c].slot[sig] = FetchResult(sig, run[c].upstream[sig])
              /\ run[c].slot[sig].state = "inflight" =>
                    run[c].slot[sig] = [EmptySlot(sig) EXCEPT !.state = "inflight"]

C5_Witness ==
    /\ run["main"].pc = "score"
    /\ run["main"].slot["news"].err
    /\ ~run["main"].slot["weather"].err
    /\ run["main"].slot["weather"].data = Tense["weather"]
    /\ run["main"].slot["weather"].raw # GoNil

\* C6: at most one Pipeline.Run executes at any moment; the scheduler is
\* started only after the startup run has returned, and it starts no run
\* while one is in flight, also when a tick arrives during the run.
C6_OneRunAtATime ==
    /\ active <= 1
    /\ ~(run["main"].pc # "idle" /\ run["sched"].pc # "idle")
    /\ schedPc # "off" => (run["main"].pc = "idle" /\ run["main"].result # "none")

C6_Witness ==
    /\ schedPc = "running"
    /\ run["sched"].pc = "save"
    /\ tickPending
    /\ active = 1

\* ======================================================== cache claims
\* C7: a Get that has returned gave nil, and then no Set had completed, or
\* exactly the bytes passed to a completed Set; and with no Set in
\* progress the cache holds the bytes passed to the last completed Set,
\* whatever the callers have written into their own buffers since.
C7_CacheAtomicAndCopied ==
    /\ \A r \in Getters :
          cs.get[r].returned =>
              IF cs.get[r].gotNil THEN ~cs.get[r].sawSet
              ELSE cs.get[r].got \in cs.completed
    /\ cs.writer = "none" =>
          IF cs.data = NilRef THEN cs.completed = {}
          ELSE cs.heap[cs.data] = cs.last

C7_Witness ==
    /\ Cardinality(cs.completed) = 2
    /\ cs.writer = "none"
    /\ \E w \in Setters : cs.last = Payload(w) /\ cs.heap[InRef(w)] # Payload(w)
    /\ \E r \in Getters :
          /\ cs.get[r].returned
          /\ ~cs.get[r].gotNil
          /\ cs.heap[cs.get[r].out] # cs.get[r].got
    /\ \E r \in Getters : cs.get[r].pc = "copy"

\* ====================================================== history claims
\* What the last UpdateHistory call was given and what it produced.
HistBefore(sig) == ExistingSignalHistory(hs.before, sig)
HistAfter(sig) == hs.snap[sig].History
PointsBefore == ExistingTotalRiskHistory(hs.before)
PointsAfter == hs.snap["total_risk"].History
Crossed == PointsBefore # <<>> /\ Last(PointsBefore).Timestamp < CurrentBoundary(hs.now)

\* C8: after any sequence of runs every per-signal history of the produced
\* snapshot has at most 20 entries, and appending to a 20-entry history
\* gives its entries 2..20 followed by the new score.
C8_HistoryCappedFifo ==
    hs.ran =>
        \A sig \in Signals :
            /\ Len(HistAfter(sig)) <= 20
            /\ Len(HistBefore(sig)) = 20 =>
                  HistAfter(sig) = SubSeq(HistBefore(sig), 2, 20) \o <<hs.scores[sig].Risk>>

C8_Witness ==
    /\ hs.ran
    /\ Len(HistBefore("news")) = 20
    /\ Len(HistAfter("news")) = 20
    /\ HistAfter("news")[1] = HistBefore("news")[2]

\* C9: for every non-empty total-risk history whose last point is earlier
\* than the most recent boundary, one run yields a history holding one newly
\* pinned point at the boundary with the pre-run last risk, followed by one
\* new unpinned point at the current time with the new total risk.
C9_CrossingPinsLastPoint ==
    (hs.ran /\ Crossed) =>
        /\ Len(PointsAfter) >= 2
        /\ PointsAfter[Len(PointsAfter) - 1] =
              TotalRiskPoint(CurrentBoundary(hs.now), Last(PointsBefore).Risk, TRUE)
        /\ Last(PointsAfter) = TotalRiskPoint(hs.now, hs.scores.TotalRisk, FALSE)

\* C10: when the last point is not earlier than the most recent boundary the
\* run replaces only that point, by an unpinned point at (now, total risk):
\* same length, earlier points unchanged, no point becomes pinned.
C10_OverwriteInPlace ==
    (hs.ran /\ PointsBefore # <<>> /\ ~Crossed) =>
        /\ Len(PointsAfter) = Len(PointsBefore)
        /\ \A i \in 1..(Len(PointsBefore) - 1) : PointsAfter[i] = PointsBefore[i]
        /\ Last(PointsAfter) = TotalRiskPoint(hs.now, hs.scores.TotalRisk, FALSE)
        /\ \A i \in 1..Len(PointsAfter) : PointsAfter[i].Pinned => PointsBefore[i].Pinned

C10_Witness ==
    /\ hs.ran
    /\ Len(PointsBefore) >= 2
    /\ ~Crossed
    /\ Last(PointsBefore) # Last(PointsAfter)
    /\ Last(PointsBefore).Timestamp = CurrentBoundary(hs.now)

\* The points of a history as a set.
PointSet(points) == {points[i] : i \in 1..Len(points)}

\* C11: a pinned point of the previous snapshot is in the snapshot a run
\* produces with the same timestamp, the same risk and still pinned, unless
\* that snapshot holds no point of its timestamp any more; whatever the
\* run's scores.  (Holding from each snapshot to the next, it holds from a
\* snapshot to every later one.)
C11_PinnedPointsImmutable ==
    hs.ran =>
        \A p \in PointSet(PointsBefore) :
            (p.Pinned /\ \E q \in PointSet(PointsAfter) : q.Timestamp = p.Timestamp) =>
                p \in PointSet(PointsAfter)

\* A pinned point has come through a second run, one that crossed a
\* boundary and computed another total risk than the run before it.
C11_Witness ==
    /\ hs.runs = 2
    /\ Crossed
    /\ \E p \in PointSet(PointsBefore) : p.Pinned /\ p \in PointSet(PointsAfter)
    /\ Last(PointsBefore).Risk # Last(PointsAfter).Risk

\* C12: starting from empty storage, once a run before a 00:00/12:00
\* boundary has been followed by a run after it, the total-risk history
\* holds a pinned point at that boundary next to the live unpinned point.
C12_BoundaryPinnedFromEmpty ==
    (hs.fresh /\ hs.runs >= 2 /\ Crossed) =>
        /\ \E p \in PointSet(PointsAfter) :
              p.Pinned /\ p.Timestamp = CurrentBoundary(hs.now)
        /\ ~Last(PointsAfter).Pinned

\* C13: with no previous total-risk history, storage empty or the stored
\* history empty, the run's history is exactly one point: unpinned, at the
\* run's timestamp, with the run's total risk.
C13_FirstPointAlone ==
    (hs.ran /\ PointsBefore = <<>>) =>
        /\ PointsAfter = <<TotalRiskPoint(hs.now, hs.scores.TotalRisk, FALSE)>>
        /\ hs.snap["last_updated"].Time = hs.now
        /\ hs.snap["total_risk"].Risk = hs.scores.TotalRisk

\* A run on a stored snapshot whose total-risk history is empty.
C13_Witness ==
    /\ hs.ran
    /\ hs.before # GoNil
    /\ PointsBefore = <<>>
    /\ Len(PointsAfter) = 1


\* ==================================================== calculator claims
\* Calculate has been invoked.
Invoked == ks.last # None

\* The input and the result of the last invocation.
LastIn == ks.last.in
LastOut == ks.last.out

\* C14 as stated: with the benign inputs (no alert article, 50 aircraft,
\* no tanker, clear sky with 0% clouds, 0% odds, activity score 30) the
\* total risk Calculate computes is below 10.
C14_BenignBelowTen ==
    (Invoked /\ LastIn = Benign) => LastOut.TotalRisk < 10

\* C14: with the benign inputs Calculate's total risk is 16: the scores are
\* news 3, connectivity 0, flight 55, tanker 0, weather 100, prediction
\* market 10, simulated activity 10, and two signals, flight and weather,
\* count as elevated.
C14_BenignIsSixteen ==
    (Invoked /\ LastIn = Benign) =>
        /\ pentagonBaseScore(HourOf(1), (WeekdayOf(1) + 6) % 7, FALSE) = 30
        /\ PentagonAt(1, FALSE).RiskContribution = Benign[8]
        /\ LastOut.news.Risk = 3
        /\ LastOut.connectivity.Risk = 0
        /\ LastOut.flight.Risk = 55
        /\ LastOut.tanker.Risk = 0
        /\ LastOut.weather.Risk = 100
        /\ LastOut.polymarket.Risk = 10
        /\ LastOut.pentagon.Risk = 10
        /\ LastOut.ElevatedCount = 2
        /\ LastOut.TotalRisk = 16

C14_Witness ==
    /\ Invoked
    /\ LastIn = Benign
    /\ ks.calls = 1
    /\ LastOut.TotalRisk = 16

\* C15: for every input each of the seven per-signal risk scores Calculate
\* returns lies in [0, 100], also for more than ten tankers and for an
\* alert count above the article count.
C15_SignalScoresInRange ==
    Invoked => \A sig \in Signals : LastOut[sig].Risk \in 0..100

\* C16: for every input the TotalRisk Calculate returns is an integer in
\* [0, 100], with the escalation multiplier applied or not, and with
\* per-signal scores outside [0, 100].
C16_TotalRiskInRange ==
    Invoked => LastOut.TotalRisk \in 0..100

\* Scores above 100, five or more signals elevated: a weighted total far
\* above 100 before the multiplier, 100 returned.
C16_Witness ==
    /\ Invoked
    /\ LastOut.tanker.Risk > 100
    /\ LastOut.news.Risk > 100
    /\ LastOut.ElevatedCount >= 3
    /\ WeightedTotal100(LastOut.news.Risk, LastOut.connectivity.Risk, LastOut.flight.Risk,
                        LastOut.tanker.Risk, LastOut.polymarket.Risk, LastOut.pentagon.Risk,
                        LastOut.weather.Risk) > 100 * 100
    /\ LastOut.TotalRisk = 100

\* The weighted total of the reported scores, as a real number times 100.
ReportedTotal100 ==
    20 * LastOut.news.Risk + 20 * LastOut.connectivity.Risk + 15 * LastOut.flight.Risk
        + 15 * LastOut.tanker.Risk + 15 * LastOut.polymarket.Risk
        + 10 * LastOut.pentagon.Risk + 5 * LastOut.weather.Risk

\* The number of signals above their thresholds: news, tanker and prediction
\* market above 30, flight and simulated activity above 50, weather above
\* 70, the connectivity risk given to Calculate at 10 or more.
ReportedElevated ==
    Count(LastOut.news.Risk > 30) + Count(CalcInputOf(LastIn).connectivity.Risk >= 10)
        + Count(LastOut.flight.Risk > 50) + Count(LastOut.tanker.Risk > 30)
        + Count(LastOut.polymarket.Risk > 30) + Count(LastOut.pentagon.Risk > 50)
        + Count(LastOut.weather.Risk > 70)

\* TotalRisk is an integer nearest to x/10000.
NearestTo(x) ==
    /\ 10000 * LastOut.TotalRisk - x <= 5000
    /\ x - 10000 * LastOut.TotalRisk <= 5000

\* C17: the reported ElevatedCount is the number of signals above their
\* thresholds; when it is 3 or more TotalRisk is the weighted total times
\* 1.15, clamped to 100, then rounded to a nearest integer; when it is less,
\* TotalRisk is the weighted total itself, clamped and rounded.
C17_EscalationIffThreeElevated ==
    Invoked =>
        /\ LastOut.ElevatedCount = ReportedElevated
        /\ ReportedElevated >= 3 => NearestTo(Min(1000000, 115 * ReportedTotal100))
        /\ ReportedElevated < 3 => NearestTo(Min(1000000, 100 * ReportedTotal100))

\* Three signals elevated: the multiplier shows in the total, which stays
\* below the clamp.
C17_Witness ==
    /\ Invoked
    /\ LastOut.ElevatedCount = 3
    /\ LastOut.TotalRisk < 100
    /\ ~NearestTo(100 * ReportedTotal100)

\* The seven reported scores are all v.
AllScores(v) == \A sig \in Signals : LastOut[sig].Risk = v

\* C18 as stated: with fewer than 3 signals elevated TotalRisk is the
\* weighted sum of the reported scores (weights 0.20 0.20 0.15 0.15 0.15
\* 0.10 0.05), rounded and clamped to [0, 100]; equal scores v give v.
C18_TotalIsRoundedWeightedSum ==
    (Invoked /\ ReportedElevated < 3) =>
        /\ LastOut.TotalRisk = RoundedTotal(100 * ReportedTotal100)
        /\ \A v \in 0..100 : AllScores(v) => LastOut.TotalRisk = v

\* C18: with fewer than 3 signals elevated TotalRisk is the float64 sum of
\* the float64 products 0.20*news, 0.20*connectivity, 0.15*flight,
\* 0.15*tanker, 0.15*polymarket, 0.10*pentagon, 0.05*weather, taken in this
\* order, rounded half away from zero and clamped to [0, 100].  It is an
\* integer nearest to the weighted sum of real numbers, and the rounding of
\* that sum unless the sum lies halfway between two integers; equal scores
\* v give v.
C18_TotalIsFloatWeightedSum ==
    (Invoked /\ ReportedElevated < 3) =>
        /\ LastOut.TotalRisk =
              totalRiskFloat(LastOut.news.Risk, LastOut.connectivity.Risk,
                             LastOut.flight.Risk, LastOut.tanker.Risk,
                             LastOut.polymarket.Risk, LastOut.pentagon.Risk,
                             LastOut.weather.Risk, ReportedElevated)
        /\ NearestTo(Min(1000000, 100 * ReportedTotal100))
        /\ ReportedTotal100 % 100 # 50 =>
              LastOut.TotalRisk = RoundedTotal(100 * ReportedTotal100)
        /\ \A v \in 0..100 : AllScores(v) => LastOut.TotalRisk = v

\* The weighted sum is 7.5 and the total is 7.
C18_Witness ==
    /\ Invoked
    /\ LastIn = PlainTie
    /\ ReportedElevated = 0
    /\ ReportedTotal100 = 750
    /\ LastOut.TotalRisk = 7

C20_NewsFailureOnEmptyStorage ==
    \A c \in Callers :
        (run[c].slot["news"].err /\ run[c].currentData = GoNil) =>
            /\ run[c].failedAt \in {"none", "marshal", "save"}
            /\ Scored(c) =>
                  /\ newsRisk([TotalCount |-> 0, AlertCount |-> 0]) = 3
                  /\ run[c].scores.news.Risk = 3
                  /\ run[c].snapshot.news.Risk = 3
                  /\ run[c].snapshot.news.History = <<3>>
            /\ (Over(c) /\ run[c].failedAt = "none") =>
                  /\ run[c].result = "nil"
                  /\ Last(store) = run[c].data

\* The news fetcher alone failed on empty storage, and the run went through.
C20_Witness ==
    /\ Over("main")
    /\ run["main"].result = "nil"
    /\ run["main"].currentData = GoNil
    /\ \A sig \in ApiSignals : run["main"].slot[sig].err <=> sig = "news"
    /\ run["main"].snapshot.news.History = <<3>>
    /\ Len(store) = 1

\* C21: when json.Marshal of the new snapshot fails, Run returns the error
\* and calls neither SaveSnapshot nor Cache.Set: the store, its latest
\* snapshot included, and the cache are what they were when the run began.
C21_MarshalFailureWritesNothing ==
    \A c \in Callers :
        run[c].marshalErr =>
            /\ run[c].pc = "idle"
            /\ run[c].result = "error"
            /\ run[c].failedAt = "marshal"
            /\ Len(store) = run[c].storeAtStart
            /\ cache = run[c].cacheAtStart

\* A scheduled run fails to serialize after the startup run has stored and
\* cached a snapshot.
C21_Witness ==
    /\ run["sched"].marshalErr
    /\ run["sched"].result = "error"
    /\ Len(store) >= 1
    /\ cache.data # None
    /\ cache.data = Last(store)

\* C27: a run that returned nil has appended exactly one snapshot, a run
\* that returned an error none, and every step leaves the rows stored so
\* far in place and unchanged: the stored sequence only grows.
RunAppendsOnce ==
    \A c \in Callers :
        Over(c) =>
            Len(store) = run[c].storeAtStart + (IF run[c].result = "nil" THEN 1 ELSE 0)

StoreOnlyGrows ==
    /\ Len(store') >= Len(store)
    /\ SubSeq(store', 1, Len(store)) = store

C27_StoreAppendOnly == [](RunAppendsOnce) /\ [][StoreOnlyGrows]_vars

\* A second successful run has added its row behind the first run's.
C27_Witness ==
    /\ Over("sched")
    /\ run["sched"].result = "nil"
    /\ Len(store) >= 2
    /\ run["sched"].storeAtStart = Len(store) - 1

\* The history of signal sig in the snapshot that was the latest of the
\* store when run c began.
StoredHistoryAtStart(c, sig) ==
    IF run[c].storeAtStart = 0
    THEN <<>>
    ELSE ExistingSignalHistory(ParseSnapshot(store[run[c].storeAtStart]), sig)

\* C28: after a run that returned nil, each per-signal history of the
\* snapshot it persisted is the last (at most 20) entries of the history in
\* the snapshot that was latest when the run began, followed by the new
\* score.
C28_StoredHistoryCarried ==
    \A c \in Callers :
        (Over(c) /\ run[c].result = "nil") =>
            /\ Last(store) = run[c].data
            /\ \A sig \in Signals :
                  run[c].snapshot[sig].History =
                      AppendCapped(StoredHistoryAtStart(c, sig), run[c].snapshot[sig].Risk)

\* Run c found a row in the store and either the query failed or the row's
\* bytes did not parse.
LoadFailed(c) ==
    /\ run[c].upstream # None
    /\ run[c].storeAtStart > 0
    /\ \/ run[c].loaded = 0
       \/ store[run[c].storeAtStart].t # "object"

\* C30: when LatestSnapshot fails or the stored bytes do not parse, Run does
\* not return an error for it and goes on as with empty storage: no previous
\* data, no fallback raw_data for a failed fetcher, every history started
\* fresh; unless a later step fails, it persists and caches the snapshot.
C30_LoadFailureIsEmptyStorage ==
    \A c \in Callers :
        LoadFailed(c) =>
            /\ run[c].currentData = GoNil
            /\ run[c].failedAt \in {"none", "marshal", "save"}
            /\ Scored(c) =>
                  /\ \A sig \in Signals :
                        run[c].snapshot[sig].History = <<run[c].scores[sig].Risk>>
                  /\ \A sig \in ApiSignals :
                        run[c].slot[sig].err => run[c].snapshot[sig].RawData = EmptyMap
                  /\ run[c].snapshot.total_risk.History =
                        UpdateTotalRiskHistory(<<>>, run[c].snapshot.last_updated.Time,
                                               run[c].scores.TotalRisk)
            /\ (Over(c) /\ run[c].failedAt = "none") =>
                  /\ run[c].result = "nil"
                  /\ Len(store) = run[c].storeAtStart + 1
                  /\ Last(store) = run[c].data
                  /\ cache.data = run[c].data

\* The query failed on a store that holds a snapshot, a fetcher failed too,
\* and the run went through.
C30_Witness ==
    /\ Over("main")
    /\ run["main"].result = "nil"
    /\ run["main"].loaded = 0
    /\ store[1].t = "object"
    /\ \E sig \in ApiSignals : run["main"].slot[sig].err
    /\ Len(store) = 2
    /\ cache.data = store[2]

\* The stored bytes did not parse, and the run went through.
UnparsableRowRunThrough ==
    /\ Over("main")
    /\ run["main"].result = "nil"
    /\ run["main"].loaded = 1
    /\ store[1] = NotJSON
    /\ Len(store) = 2

\* 00:00 and 12:00 of the day of instant now.
MidnightOf(now) == DayOf(now) * 4
NoonOf(now) == DayOf(now) * 4 + 2

\* C29: the boundary UpdateHistory compares against is today's 12:00 when
\* the hour is at least 12 and today's 00:00 otherwise, which is the latest
\* of the two that is not after now; the last point counts as crossed only
\* when it is stamped strictly earlier, so a point stamped at the boundary
\* is overwritten in place and nothing is pinned.
C29_BoundaryHalfDayStrict ==
    hs.ran =>
        LET b == CurrentBoundary(hs.now)
        IN  /\ b = (IF HourOf(hs.now) >= 12 THEN NoonOf(hs.now) ELSE MidnightOf(hs.now))
            /\ b <= hs.now
            /\ \A d \in {MidnightOf(hs.now), NoonOf(hs.now)} : d <= hs.now => d <= b
            /\ PointsBefore # <<>> =>
                  PointsAfter =
                      (IF Last(PointsBefore).Timestamp < b
                       THEN PinAndAppend(PointsBefore, hs.now, hs.scores.TotalRisk)
                       ELSE OverwriteLast(PointsBefore, hs.now, hs.scores.TotalRisk))
            /\ (PointsBefore # <<>> /\ Last(PointsBefore).Timestamp = b) =>
                  /\ Len(PointsAfter) = Len(PointsBefore)
                  /\ \A i \in 1..(Len(PointsBefore) - 1) : PointsAfter[i] = PointsBefore[i]
                  /\ ~Last(PointsAfter).Pinned

\* At an hour of 12 or later the last stored point is stamped 12:00 sharp,
\* and the update wrote over it.
C29_Witness ==
    /\ hs.ran
    /\ HourOf(hs.now) >= 12
    /\ PointsBefore # <<>>
    /\ Last(PointsBefore).Timestamp = NoonOf(hs.now)
    /\ Len(PointsAfter) = Len(PointsBefore)
    /\ Last(PointsAfter).Timestamp = hs.now

\* Until main has its startup run's return value, that run is the only one
\* begun and neither the scheduler nor its ticker exists; once main serves,
\* the startup run is over.
StartupRunFirst ==
    /\ mainPc = "boot" => runsStarted = 0
    /\ mainPc = "initialRun" => runsStarted = 1
    /\ mainPc \in {"boot", "initialRun"} =>
          /\ schedPc = "off"
          /\ ~tickPending
          /\ run["sched"] = IdleRun
    /\ mainPc \in {"serving", "done"} =>
          /\ run["main"].pc = "idle"
          /\ run["main"].result \in {"nil", "error"}
          /\ runsStarted >= 1

\* The scheduler starts with an empty ticker channel and one run behind it;
\* every run begun after that takes a tick out of the channel.
PeriodicRunsTakeATick ==
    /\ (schedPc = "off" /\ schedPc' # "off") =>
          (~tickPending' /\ runsStarted = 1 /\ runsStarted' = 1)
    /\ (mainPc # "boot" /\ runsStarted' > runsStarted) =>
          (schedPc = "select" /\ tickPending /\ ~tickPending' /\ runsStarted' = runsStarted + 1)

\* C24: at startup exactly one run is executed at once, over before the
\* scheduler and the HTTP server start; the periodic runs come on top of
\* it, the first of them when the ticker's first interval has elapsed.
C24_OneStartupRunThenTicks == [](StartupRunFirst) /\ [][PeriodicRunsTakeATick]_vars

\* A periodic run is under way behind the startup run.
C24_Witness ==
    /\ mainPc = "serving"
    /\ schedPc = "running"
    /\ runsStarted = 2
    /\ run["main"].result \in {"nil", "error"}
    /\ run["sched"].pc # "idle"

\* Once the stop channel is closed no run is begun.
NoRunBegunAfterStop == stopClosed => runsStarted' = runsStarted

\* C23: after Scheduler.Stop the scheduler starts no new run, even when a
\* tick is pending at that moment.
C23_NoRunAfterStop == [][NoRunBegunAfterStop]_vars

\* Start returns only from its select, never from within a run.
StartReturnsBetweenRuns ==
    schedPc = "stopped" => (stopClosed /\ run["sched"].pc = "idle" /\ active = 0)

\* The caller of the n-th run of the process, and that run having failed.
CallerOfRun(n) == IF n = 1 THEN "main" ELSE "sched"
RunFailed(n) ==
    /\ runsStarted = n
    /\ run[CallerOfRun(n)].pc = "idle"
    /\ run[CallerOfRun(n)].result = "error"

\* Only Stop ends the scheduler, and only the shutdown signal ends main.
OnlyStopEnds ==
    /\ schedPc = "stopped" => stopClosed
    /\ mainPc = "done" => stopClosed
    /\ (mainPc = "initialRun" /\ run["main"].result = "error") => schedPc = "off"

\* C22: a run that returns an error, the startup run or a scheduled one,
\* ends neither the process nor the scheduler; unless Stop is called, a
\* further run starts after it.
C22_FailedRunThenNextRun ==
    /\ [](OnlyStopEnds)
    /\ \A n \in 1..(MaxLiveRuns - 1) :
          (RunFailed(n) /\ ~stopClosed) ~> (stopClosed \/ runsStarted > n)

\* The startup run and the first scheduled run both failed, and a third
\* run is under way.
C22_Witness ==
    /\ run["main"].result = "error"
    /\ runsStarted = 3
    /\ run["sched"].pc # "idle"
    /\ ~stopClosed
    /\ Len(store) = 0

\* Run c had fetchers in flight when its ctx was cancelled.
CancelledInFlight(c) == run[c].ctxDone /\ run[c].inflightAtCancel # {}

\* C25: when the ctx of a run is cancelled while fetchers are in flight,
\* these fetchers are cut short, none of them delivers a result, the run
\* goes no further than its fetching, and neither store nor cache is
\* written.
C25_CancelAbortsFetchers ==
    \A c \in Callers :
        CancelledInFlight(c) =>
            /\ \A sig \in run[c].inflightAtCancel :
                  run[c].slot[sig].state = "done" => run[c].slot[sig].err
            /\ run[c].pc \in {"fetching", "idle"}
            /\ Len(store) = run[c].storeAtStart
            /\ cache = run[c].cacheAtStart

\* What the code does keep of it: such a run writes neither store nor
\* cache and returns an error.
CancelledRunWritesNothing ==
    \A c \in Callers :
        CancelledInFlight(c) =>
            /\ Len(store) = run[c].storeAtStart
            /\ cache = run[c].cacheAtStart
            /\ run[c].pc # "cache"
            /\ Over(c) => (run[c].result = "error" /\ run[c].failedAt \in {"marshal", "save"})

\* A run cancelled in flight got as far as SaveSnapshot with every
\* fetcher's answer.
CancelledRunWentOn ==
    /\ CancelledInFlight("main")
    /\ run["main"].failedAt = "save"
    /\ \A sig \in ApiSignals : run["main"].slot[sig].state = "done" /\ ~run["main"].slot[sig].err

\* The answer to each GET handled to its end: from the cache when Get
\* returned bytes, else from the store's latest snapshot, which was then
\* put into the cache, else 404 when the store had no row and 500 when the
\* query failed, the cache not written in either case.
AnsweredAsClaimed ==
    \A h \in Handlers :
        LET r == rq[h]
        IN  (r.pc = "idle" /\ r.method = "GET" /\ r.status # 0) =>
               IF r.cacheSeen # None
               THEN r.status = 200 /\ r.body = r.cacheSeen /\ ~r.queried /\ ~r.didSet
               ELSE /\ r.queried
                    /\ r.dbErr => (r.status = 500 /\ ~r.didSet)
                    /\ (~r.dbErr /\ r.stored = None) => (r.status = 404 /\ ~r.didSet)
                    /\ (~r.dbErr /\ r.stored # None) =>
                          (r.status = 200 /\ r.body = r.stored /\ r.didSet)

\* What a step of a handler does to the shared state: only the step that
\* puts the loaded snapshot into the cache writes it, what LatestSnapshot
\* hands over is the store's newest row (none if there is none), and the
\* store is never written.
HandlerWritesOnlyOnLoad ==
    \A h \in Handlers :
        rq'[h] # rq[h] =>
            /\ store' = store
            /\ (rq'[h].didSet /\ ~rq[h].didSet) =>
                  (cache'.data = rq[h].stored /\ rq[h].stored # None)
            /\ ~(rq'[h].didSet /\ ~rq[h].didSet) => cache' = cache
            /\ (rq'[h].queried /\ ~rq[h].queried /\ ~rq'[h].dbErr) =>
                  rq'[h].stored = (IF store = <<>> THEN None ELSE store[Len(store)])
            /\ (rq[h].pc = "idle" /\ rq'[h].method = "GET") =>
                  rq'[h].cacheSeen = cache.data

\* C26: a data request is answered from the cache when the cache is not
\* empty; from the store's latest snapshot, which is then put into the
\* cache, when it is; with 404 when there is no snapshot and 500 when the
\* store read fails, the handler leaving the cache as it is in both cases.
C26_CacheThenStore == [](AnsweredAsClaimed) /\ [][HandlerWritesOnlyOnLoad]_vars

\* One goroutine answered a first request from the store and filled the
\* cache, and its second request from the cache.
C26_Witness ==
    /\ rq["h1"].served = 2
    /\ rq["h1"].status = 200
    /\ rq["h1"].cacheSeen # None
    /\ rq["h1"].body = cache.data
    /\ run["main"].result = "error"
    /\ runsStarted = 1
    /\ Len(store) = 1

\* The other outcomes: no snapshot, and a failed store read.
NoDataAnswered ==
    rq["h1"].status = 404 /\ store = <<>> /\ cache.data = None
StoreErrorAnswered ==
    rq["h1"].status = 500 /\ rq["h1"].dbErr /\ store # <<>> /\ cache.data = None

\* The rows of the store st that hold the bytes data.
RowsOf(data, st) == {i \in 1..Len(st) : st[i] = data}

\* A step does not replace the cached snapshot by one that only earlier
\* rows of the store hold.
CacheNotOlder ==
    (cache.data # None /\ cache'.data # None) =>
        \A i \in RowsOf(cache.data, store) :
            \/ RowsOf(cache'.data, store') = {}
            \/ \E j \in RowsOf(cache'.data, store') : j >= i

\* C31: however runs and data requests interleave, the cache never moves
\* backwards: once it holds the snapshot of run n it never afterwards
\* holds the snapshot of an earlier run.
C31_CacheNeverBackwards == [][CacheNotOlder]_vars

\* A handler that loaded a row from the store is about to put it into a
\* cache that holds a newer row.
StaleLoadPending ==
    /\ rq["h1"].pc = "set"
    /\ cache.data # None
    /\ cache.data = store[Len(store)]
    /\ rq["h1"].data # cache.data
    /\ rq["h1"].data = store[Len(store) - 1]

\* A cache that is not empty holds the bytes of a row of the store.
CacheHoldsStoredRow == cache.data # None => RowsOf(cache.data, store) # {}

\* A step writes the cache only at the end of a run, with the bytes the
\* run's SaveSnapshot has inserted, or in a handler, with the bytes
\* LatestSnapshot gave it.
CacheSetFromStore ==
    cache' # cache =>
        \/ \E c \in Callers :
              /\ run[c].pc = "cache"
              /\ cache'.data = run[c].data
              /\ RowsOf(run[c].data, store) # {}
        \/ \E h \in Handlers :
              /\ rq[h].pc = "set"
              /\ cache'.data = rq[h].stored
              /\ RowsOf(rq[h].stored, store) # {}

\* C32: in every reachable state a cache that is not empty holds bytes
\* equal to a snapshot persisted in the store; it is only set after a
\* successful SaveSnapshot of the same bytes or from bytes LatestSnapshot
\* returned.
C32_CacheHoldsPersistedBytes == [](CacheHoldsStoredRow) /\ [][CacheSetFromStore]_vars

\* The cache was filled by a handler from the store, then by a run that
\* had saved its snapshot.
C32_Witness ==
    /\ rq["h1"].didSet
    /\ run["sched"].result = "nil"
    /\ Len(store) = 2
    /\ cache.data = store[2]
    /\ rq["h1"].stored = store[1]

C34_NewestEntryIsCurrent ==
    hs.ran =>
        /\ \A sig \in Signals :
              /\ HistAfter(sig) # <<>>
              /\ Last(HistAfter(sig)) = hs.snap[sig].Risk
              /\ hs.snap[sig].Risk = hs.scores[sig].Risk
        /\ PointsAfter # <<>>
        /\ ~Last(PointsAfter).Pinned
        /\ Last(PointsAfter).Risk = hs.snap["total_risk"].Risk
        /\ hs.snap["total_risk"].Risk = hs.scores.TotalRisk
        /\ Last(PointsAfter).Timestamp = hs.now
        /\ hs.snap["last_updated"].Time = hs.now

\* A run on signal histories already at the cap, whose news risk is not
\* the one recorded last, and whose total-risk point replaced another.
C34_Witness ==
    /\ hs.ran
    /\ Len(HistBefore("news")) = HistoryCap
    /\ Last(HistBefore("news")) # hs.snap["news"].Risk
    /\ Last(HistAfter("news")) = hs.snap["news"].Risk
    /\ PointsBefore # <<>>
    /\ Last(PointsBefore) # Last(PointsAfter)

\* The timestamps of a total-risk history never decrease, oldest first.
TimestampsAscend(points) ==
    \A i \in 1..(Len(points) - 1) : points[i].Timestamp <= points[i + 1].Timestamp

AscendingAndPinsOnBoundaries ==
    hs.ran =>
       /\ TimestampsAscend(PointsAfter)
       /\ \A i \in 1..Len(PointsAfter) :
             PointsAfter[i].Pinned =>
                 PointsAfter[i].Timestamp \in {MidnightOf(PointsAfter[i].Timestamp),
                                               NoonOf(PointsAfter[i].Timestamp)}

\* The raw_data of signal sig in the bytes run c marshalled, as JSON.
MarshalledRaw(c, sig) == run[c].data.m[sig].m["raw_data"]

\* C36: when a fetcher fails and the previous snapshot holds the signal's
\* raw_data, that raw_data is the raw_data of the new snapshot, so that
\* through failure after failure the signal keeps the score of the last
\* fetch that succeeded; when the previous snapshot holds none, the new
\* snapshot's raw_data is an empty object, never null.
C36_FallbackCarriedForward ==
    \A c \in Callers : \A sig \in ApiSignals :
        (Scored(c) /\ run[c].slot[sig].err) =>
            IF HasPreviousRaw(run[c].currentData, sig)
            THEN /\ run[c].snapshot[sig].RawData = run[c].currentData.m[sig].m["raw_data"].m
                 /\ run[c].failedAt # "marshal" =>
                        UnmarshalAny(MarshalledRaw(c, sig))
                            = run[c].currentData.m[sig].m["raw_data"]
                 /\ fetchLog[run[c].loaded][sig] # None =>
                        run[c].scores[sig].Risk
                            = DirectScore(sig, fetchLog[run[c].loaded][sig])
            ELSE /\ run[c].snapshot[sig].RawData = EmptyMap
                 /\ run[c].failedAt # "marshal" => MarshalledRaw(c, sig) = JObj(EmptyMap)

\* The scheduled run fell back on raw_data that the startup run had itself
\* taken over from the row found in storage (row 2 rests on the values
\* fetched for row 1, not on what the sources answer now): two failures
\* in a row.
C36_Witness ==
    /\ Scored("sched")
    /\ run["sched"].loaded = 2
    /\ \A sig \in ApiSignals :
          /\ run["sched"].slot[sig].err
          /\ fetchLog[1][sig] # Tense[sig]
          /\ HasPreviousRaw(run["sched"].currentData, sig)
          /\ fetchLog[2][sig] = fetchLog[1][sig]
          /\ fetchLog[2][sig] # None
          /\ run["sched"].snapshot[sig].RawData # EmptyMap
          /\ run["sched"].scores[sig].Risk = DirectScore(sig, fetchLog[1][sig])

\* A failed fetch with nothing in storage: the snapshot holds empty maps.
NoPreviousRawStoresEmpty ==
    /\ Scored("main")
    /\ run["main"].failedAt = "none"
    /\ run["main"].currentData = GoNil
    /\ \A sig \in ApiSignals :
          /\ run["main"].slot[sig].err
          /\ MarshalledRaw("main", sig) = JObj(EmptyMap)

\* ================================================ pulse.Tracker claims
\* What the tracker holds and reports when the call of p returns: no more
\* than maxVisits visits, none at or before the call's cutoff, and a
\* WatchingNow that counts the visits held after the cutoff.
WindowAndCapKept(p) ==
    LET c == ps.call[p]
    IN  /\ Len(c.after) <= maxVisits
        /\ \A i \in 1..Len(c.after) : c.after[i].Timestamp > c.now - window
        /\ c.stats.WatchingNow = Cardinality(Fresh(c.after, c.now))

\* C37: after any sequence of LogVisit and GetStats calls, the clock never
\* going back, the tracker holds at most maxVisits visits, holds no visit
\* older than the window, and reports as WatchingNow the number of visits
\* it holds within the window.
C37_TrackerWindowAndCap ==
    \A p \in PulseCallers :
        ps.call[p].returned =>
            LET c == ps.call[p]
            IN  /\ Len(c.after) <= maxVisits
                /\ \A i \in 1..Len(c.after) : c.after[i].Timestamp >= c.now - window
                /\ c.stats.WatchingNow = Cardinality(Fresh(c.after, c.now))

\* The same, for calls none of which began before another returned.
SequentialCallsKeepWindow ==
    \A p \in PulseCallers :
        (ps.call[p].returned /\ ~ps.overlapped) => WindowAndCapKept(p)

\* The cap and the count, which hold for every call.
CapAndCountKept ==
    \A p \in PulseCallers :
        ps.call[p].returned =>
            /\ Len(ps.call[p].after) <= maxVisits
            /\ ps.call[p].stats.WatchingNow
                   = Cardinality(Fresh(ps.call[p].after, ps.call[p].now))

\* The visits `visits` without its first k.
DropFirst(visits, k) == SubSeq(visits, k + 1, Len(visits))

\* What a call that has returned did to the visits it found when it took
\* the lock.  GetStats: it removed some of the oldest, each at or before
\* its cutoff, added none, and reports the count the visits it found give.
\* LogVisit: after such a removal it added its own visit, last, with "XX"
\* for an empty country code, dropped at most the oldest to keep the cap,
\* and its stats count the visit.
CallFrame(p) ==
    LET c == ps.call[p]
    IN  \E k \in 0..Len(c.seen) :
            /\ \A i \in 1..k : c.seen[i].Timestamp <= c.now - window
            /\ IF c.op = "GetStats"
               THEN /\ c.after = DropFirst(c.seen, k)
                    /\ c.stats.WatchingNow = Cardinality(Fresh(c.seen, c.now))
                    /\ c.stats.WatchingNow <= Len(c.seen)
               ELSE /\ c.after = EnforceMax(Append(DropFirst(c.seen, k),
                                                   Visit(c.now, IF c.arg = "" THEN "XX"
                                                                ELSE c.arg)))
                    /\ Len(c.after) <= Len(c.seen) - k + 1
                    /\ Last(c.after) = Visit(c.now, IF c.arg = "" THEN "XX" ELSE c.arg)
                    /\ Len(c.after) \in Fresh(c.after, c.now)
                    /\ c.stats.WatchingNow = Cardinality(Fresh(c.after, c.now))
                    /\ c.stats.WatchingNow
                          = Cardinality(Fresh(DropFirst(c.seen, k), c.now)
                                            \ 1..(Len(c.seen) - k + 1 - Len(c.after))) + 1

\* A step changes the visits only by removing some of the oldest and
\* adding at most one at the end: none between is lost; and the steps of
\* GetStats add none.
VisitsTrimmedOrAppended ==
    ps'.visits # ps.visits =>
        /\ \E k \in 0..Len(ps.visits) :
              \/ ps'.visits = DropFirst(ps.visits, k)
              \/ /\ Len(ps'.visits) = Len(ps.visits) - k + 1
                 /\ SubSeq(ps'.visits, 1, Len(ps.visits) - k) = DropFirst(ps.visits, k)
        /\ \A p \in PulseCallers :
              (ps.call[p].op = "GetStats" /\ ps'.call[p] # ps.call[p]) =>
                  \E k \in 0..Len(ps.visits) : ps'.visits = DropFirst(ps.visits, k)

\* C38: GetStats records no visit: it only removes expired visits and
\* does not raise WatchingNow; every LogVisit adds one visit, its own, with
\* country "XX" for an empty code, and the stats it returns count it; no
\* visit is lost when LogVisit calls overlap.
C38_GetStatsReadsLogVisitAdds ==
    /\ [](\A p \in PulseCallers : ps.call[p].returned => CallFrame(p))
    /\ [][VisitsTrimmedOrAppended]_vars

\* Two LogVisit calls overlapped, one with an empty code, and the tracker
\* holds the visit of each.
C38_Witness ==
    /\ ps.overlapped
    /\ \A p \in PulseCallers : ps.call[p].returned /\ ps.call[p].op = "LogVisit"
    /\ ps.call["p1"].arg = ""
    /\ ps.call["p2"].arg = "IL"
    /\ ps.call["p1"].now < ps.call["p2"].now
    /\ ps.visits = <<Visit(ps.call["p2"].now, "IL"), Visit(ps.call["p1"].now, "XX")>>
    /\ ps.call["p1"].stats.WatchingNow = 2

\* GetStats removed an expired visit and reported no watcher.
GetStatsRemovedExpired ==
    \E p \in PulseCallers :
        /\ ps.call[p].returned
        /\ ps.call[p].op = "GetStats"
        /\ ps.call[p].seen # <<>>
        /\ ps.call[p].after = <<>>
        /\ ps.call[p].stats.WatchingNow = 0

\* LogVisit at the cap: the oldest visit, not expired, made room.
LogVisitAtCap ==
    \E p \in PulseCallers :
        /\ ps.call[p].returned
        /\ ps.call[p].op = "LogVisit"
        /\ Len(ps.call[p].seen) = maxVisits
        /\ Fresh(ps.call[p].seen, ps.call[p].now) = 1..maxVisits
        /\ Len(ps.call[p].after) = maxVisits
        /\ ps.call[p].stats.WatchingNow = maxVisits


====
